---- MODULE Spec2Model ----
(***************************************************************************)
(* Model of the validation engine of bomf (bomf.validation.core):          *)
(* ValidationManager.register / validate, the per-record scheduling of     *)
(* mapped validators over the dependency graph, and the ErrorHandler.      *)
(*                                                                         *)
(* asyncio is modelled as cooperative scheduling: `running` names the      *)
(* mapped validator whose coroutine currently executes; the main task      *)
(* never suspends before it reaches the exit of the TaskGroup, and child   *)
(* tasks only run while the main task waits there (pc = "join").           *)
(***************************************************************************)
EXTENDS Integers, Sequences, FiniteSets, TLC

\* ---------------------------------------------------------------- bounds
MaxRegisterCalls == 3
MaxProvided == 2
\* mapped validator objects constructed in one configuration
MaxMapped == 2
\* parameter maps passed to one PathMappedValidator
MaxParamMaps == 2
\* elements one Query yields for one data set
MaxQueryLen == 2
\* data sets passed to one validate call of a batch
MaxDataSets == 2
\* Number of positions of the source a migration reads from
MaxSourceLen == 3
\* Largest chunk_size passed to migrate_paginated
MaxChunkSize == 2

\* ------------------------------------------------------- program constants
PARAM_TYPE_MISMATCH == 5
ABANDON_EXEC == 2
PARAM_PROVIDER_ERRORED == 1
RandLow == 1000000
RandHigh == 9999999

\* ---------------------------------------------------------------- universe
\* The mapped validators that may be registered (equal objects are one name).
MappedValidators == {"F", "G", "H"}
\* Optional[timedelta]: no timeout, or a duration.
NoTimeout == "None"
Timeouts == {NoTimeout, "0.1s"}
\* asyncio.current_task() of the coroutine that runs validate.
MainTask == "main"
NoTask == "None"
NoParams == <<>>

PENDING == "PENDING"
RUNNING == "RUNNING"
FINISHED == "FINISHED"

VARIABLES
    validators,        \* ValidationManager.validators: mv -> _ExecutionInfo
    dependency_graph,  \* ValidationManager.dependency_graph: nodes and edges
    is_async,          \* MappedValidator.is_async of every mapped validator
    numCalls,          \* number of register calls made so far
    lastCall,          \* the last register call and how it ended
    pc,                \* position of the caller: config, begin, loop, join, done, raised
    raisedExc,         \* the exception that left validate ("" when none)
    data_sets,         \* the data sets passed to validate (their get_id())
    dataSetIdx,        \* position in data_sets of the data set being validated
    error_handlers,    \* validate's dict data_set -> ErrorHandler.excs
    task_group,        \* whether validate opened an asyncio.TaskGroup
    visited,           \* mapped validators already taken from the execution order
    info,              \* _RuntimeExecutionInfo: states, tasks, running_tasks, excs
    vpc,               \* position of every validator's executing coroutine
    runDeps,           \* running_dependencies handed to _execute_async_validator
    provIdx,           \* elements already taken from mapped_validator.provide(data_set)
    running,           \* the validator whose coroutine holds the event loop
    invoked,           \* per validator: parameter sets the user function was called with
    trace,             \* per validator: the elements provide yielded and how each call ended
    _ERROR_ID_MAP,     \* process-wide registry identifier -> error id
    constructed,       \* the mapped validator objects whose constructor returned
    ctorExc,           \* what the last constructor call raised ("None" when nothing)
    registered,        \* the mapped validator objects passed to register
    nodes,             \* the keys of validators, which are the nodes of the graph
    history,           \* per data set of the running validate call: its ErrorHandler and trace
    previous,          \* the validate call that returned before the present one
    provision,         \* one call of provide: its arguments, what it yielded, what was run
    overlap,           \* two validate calls on one manager that overlap in time
    migration          \* one run of MigrationStrategy.migrate or migrate_paginated

runVars == <<pc, raisedExc, data_sets, dataSetIdx, error_handlers, task_group, visited,
             info, vpc, runDeps, provIdx, running, invoked, trace, _ERROR_ID_MAP>>
\* the validate call in progress and the one before it
callVars == <<history, previous>>
\* the construction of mapped validators and their identity as keys
mappedVars == <<constructed, ctorExc, registered, nodes>>
vars == <<validators, dependency_graph, is_async, numCalls, lastCall, pc, raisedExc,
          data_sets, dataSetIdx, error_handlers, task_group, visited, info, vpc,
          runDeps, provIdx, running, invoked, trace, _ERROR_ID_MAP,
          constructed, ctorExc, registered, nodes, history, previous, provision,
          overlap, migration>>

\* ------------------------------------------------------------ registration
\* _ExecutionInfo(depends_on, timeout)
_ExecutionInfo(depends_on, timeout) == [depends_on |-> depends_on, timeout |-> timeout]

\* ValidationManager.__init__
EmptyValidators == [m \in {} |-> _ExecutionInfo({}, NoTimeout)]
EmptyGraph == [nodes |-> {}, edges |-> {}]

NoCall == [mapped_validator |-> "None", depends_on |-> {}, timeout |-> NoTimeout,
           registered_before |-> FALSE, result |-> "none"]

\* Variant: a mapped validator may name itself as a dependency when it is
\* registered for the first time.
_dependency_graph_edges_self_allowed(mapped_validator, depends_on) ==
    IF \E dependency \in depends_on :
           dependency \notin DOMAIN validators \cup {mapped_validator}
    THEN [raised |-> "ValueError", edges |-> {}]
    ELSE [raised |-> "",
          edges |-> {<<mapped_validator, dependency>> : dependency \in depends_on}]

\* _dependency_graph_edges: the edges to add, or the ValueError it raises.
_dependency_graph_edges(mapped_validator, depends_on) ==
    IF \E dependency \in depends_on : dependency \notin DOMAIN validators
    THEN [raised |-> "ValueError", edges |-> {}]
    ELSE [raised |-> "",
          edges |-> {<<mapped_validator, dependency>> : dependency \in depends_on}]

\* nx.DiGraph.add_node followed by add_edges_from
AddToGraph(graph, mapped_validator, edges) ==
    [nodes |-> graph.nodes \cup {mapped_validator}
                 \cup {e[1] : e \in edges} \cup {e[2] : e \in edges},
     edges |-> graph.edges \cup edges]

\* Mapped validators are interchangeable names: the next one to be registered
\* for the first time is the least name not yet registered.
Rank(mv) == CASE mv = "F" -> 1 [] mv = "G" -> 2 [] OTHER -> 3
NextFresh(mv) ==
    \A other \in MappedValidators \ DOMAIN validators : Rank(mv) <= Rank(other)

\* ValidationManager.register; async is mapped_validator.is_async
register(mapped_validator, depends_on, timeout, async) ==
    /\ pc = "config"
    /\ numCalls < MaxRegisterCalls
    /\ IF mapped_validator \in DOMAIN validators
       THEN async = is_async[mapped_validator]
       ELSE NextFresh(mapped_validator)
    /\ numCalls' = numCalls + 1
    /\ LET dependency_graph_edges == _dependency_graph_edges(mapped_validator, depends_on)
       IN  IF dependency_graph_edges.raised = "ValueError"
           THEN /\ lastCall' = [mapped_validator |-> mapped_validator,
                                depends_on |-> depends_on, timeout |-> timeout,
                                registered_before |->
                                    mapped_validator \in DOMAIN validators,
                                result |-> "ValueError"]
                /\ UNCHANGED <<validators, dependency_graph, is_async>>
           ELSE /\ is_async' = [is_async EXCEPT ![mapped_validator] = async]
                /\ validators' =
                      [m \in DOMAIN validators \cup {mapped_validator} |->
                          IF m = mapped_validator
                          THEN _ExecutionInfo(depends_on, timeout)
                          ELSE validators[m]]
                /\ dependency_graph' =
                      AddToGraph(dependency_graph, mapped_validator,
                                 dependency_graph_edges.edges)
                /\ lastCall' = [mapped_validator |-> mapped_validator,
                                depends_on |-> depends_on, timeout |-> timeout,
                                registered_before |->
                                    mapped_validator \in DOMAIN validators,
                                result |-> "ok"]
    /\ UNCHANGED runVars
    /\ UNCHANGED mappedVars
    /\ UNCHANGED callVars
    /\ UNCHANGED <<provision, overlap, migration>>

\* ------------------------------------------------------- graph operators
Successors(graph, n) == {e[2] : e \in {x \in graph.edges : x[1] = n}}

RECURSIVE ReachableFrom(_, _, _)
\* nodes reachable from the frontier over at least zero edges
ReachableFrom(graph, frontier, seen) ==
    LET next == UNION {Successors(graph, n) : n \in frontier} \ seen
    IN  IF next = {} THEN seen ELSE ReachableFrom(graph, next, seen \cup next)

\* nodes reachable from n over at least one edge
Descendants(graph, n) == ReachableFrom(graph, {n}, {})

\* nx.topological_sort succeeds iff the graph has no cycle
IsAcyclic(graph) == \A n \in graph.nodes : n \notin Descendants(graph, n)

\* ------------------------------------------------------ error-id registry
\* Raise sites as identifier tuples (file name, function name, line offset).
UserRaise(mv) == <<"validators.py", mv, 1>>
UserRaiseTimeout(mv) == <<"validators.py", mv, 2>>
DeadlineRaise == <<"timeouts.py", "__aexit__", 14>>
CheckTypeRaise == <<"__init__.py", "check_type", 30>>
\* an exception object that was created but never raised has no traceback
NotRaised == <<>>
\* the raise in another user function, K, of the same file
OtherRaise == <<"validators.py", "K", 1>>

\* int(blake2s(file + function, digest_size=4).hexdigest(), 16), as a table over
\* the file/function pairs of the universe (an arbitrary but fixed 32-bit value).
module_name_hash(identifier) ==
    CASE identifier[2] = "F" -> 305419896
      [] identifier[2] = "G" -> 127156048
      [] identifier[2] = "H" -> 19088743
      [] identifier[2] = "K" -> 305519899
      [] identifier[2] = "validate_a" -> 300030823
      [] identifier[2] = "validate_b" -> 200090330
      [] identifier[2] = "validate_c" -> 100087315
      [] OTHER -> 427587855

\* Variant: the draw has no lower limit.
randint_from_zero(seed) ==
    (((seed % 100003) * 7919) + 104729) % (RandHigh + 1)

\* random.seed(seed); random.randint(1_000_000, 9_999_999): a fixed function of
\* the seed into the range.
randint(seed) ==
    RandLow + ((((seed % 100003) * 7919) + 104729) % (RandHigh - RandLow + 1))

NoId == 0

\* _generate_new_id
_generate_new_id(identifier, last_id) ==
    IF last_id # NoId
    THEN randint(last_id)
    ELSE randint(module_name_hash(identifier) + identifier[3])

Assigned(map) == {map[i] : i \in DOMAIN map}

\* Variant: the first id generated is taken, whether it is assigned or not.
DrawUnused_first_draw(map, identifier, last_id) ==
    _generate_new_id(identifier, last_id)

RECURSIVE DrawUnused(_, _, _)
\* the while-loop of _get_error_id
DrawUnused(map, identifier, last_id) ==
    LET new_error_id == _generate_new_id(identifier, last_id)
    IN  IF new_error_id \notin Assigned(map)
        THEN new_error_id
        ELSE DrawUnused(map, identifier, new_error_id)

RECURSIVE DrawEnds(_, _, _, _)
\* Whether the while-loop of _get_error_id reaches its break within draws
\* more draws.  A redraw depends on the colliding id alone, so a loop that has
\* met more assigned ids than there are is going round a cycle of them.
DrawEnds(map, identifier, last_id, draws) ==
    LET new_error_id == _generate_new_id(identifier, last_id)
    IN  \/ new_error_id \notin Assigned(map)
        \/ /\ draws > 1
           /\ DrawEnds(map, identifier, new_error_id, draws - 1)

\* _get_error_id: whether the call returns
_get_error_id_returns(map, identifier) ==
    \/ identifier \in DOMAIN map
    \/ DrawEnds(map, identifier, NoId, Cardinality(Assigned(map)) + 1)

\* _get_error_id: the registry after the call
RegistryAfter(map, identifier) ==
    IF identifier \in DOMAIN map
    THEN map
    ELSE [i \in DOMAIN map \cup {identifier} |->
             IF i = identifier THEN DrawUnused(map, identifier, NoId) ELSE map[i]]

\* _get_error_id: the id it returns
_get_error_id(map, identifier) == RegistryAfter(map, identifier)[identifier]

\* ------------------------------------------------------------ ErrorHandler
\* ValidationError.__init__: the snapshot is taken from the task registered
\* for the mapped validator in info.tasks.
ValidationError(inf, message_detail, cause, mapped_validator, error_id) ==
    [error_id |-> error_id,
     message_detail |-> message_detail,
     cause |-> cause,
     data_set |-> data_sets[dataSetIdx],
     mapped_validator |-> mapped_validator,
     provided_params |->
         inf.running_tasks[inf.tasks[mapped_validator]].current_provided_params]

\* Variant: the handler keeps one error for each mapped validator, the last.
catch_keeps_last(inf, map, msg, cause, identifier, mapped_validator, custom_error_id) ==
    LET error_id == IF custom_error_id = NoId
                    THEN _get_error_id(map, identifier)
                    ELSE custom_error_id
        error_nested == ValidationError(inf, msg, <<cause, identifier>>,
                                        mapped_validator, error_id)
    IN  [inf EXCEPT !.excs[mapped_validator] = <<error_nested>>]

\* ErrorHandler.catch: info after the call (custom_error_id = NoId means None)
catch(inf, map, msg, cause, identifier, mapped_validator, custom_error_id) ==
    LET error_id == IF custom_error_id = NoId
                    THEN _get_error_id(map, identifier)
                    ELSE custom_error_id
        error_nested == ValidationError(inf, msg, <<cause, identifier>>,
                                        mapped_validator, error_id)
    IN  [inf EXCEPT !.excs[mapped_validator] = Append(@, error_nested)]

\* Variant: the check for a known identifier has no effect on the insertion,
\* an id is drawn and inserted at every call.
catchRegistry_draws_again(map, identifier, custom_error_id) ==
    IF custom_error_id = NoId
    THEN [i \in DOMAIN map \cup {identifier} |->
             IF i = identifier THEN DrawUnused(map, identifier, NoId) ELSE map[i]]
    ELSE map

\* ErrorHandler.catch: the registry after the call
catchRegistry(map, identifier, custom_error_id) ==
    IF custom_error_id = NoId THEN RegistryAfter(map, identifier) ELSE map

\* ------------------------------------------------------------- validate
Tasks == {NoTask, MainTask} \cup MappedValidators

\* _RuntimeTaskInfo(current_mapped_validator=None, current_provided_params=None)
_RuntimeTaskInfo == [current_mapped_validator |-> "None", current_provided_params |-> NoParams]

\* _RuntimeExecutionInfo(...) as created for every data set in validate
_RuntimeExecutionInfo ==
    [states |-> [m \in MappedValidators |-> PENDING],
     tasks |-> [m \in MappedValidators |-> NoTask],
     running_tasks |-> [t \in Tasks |-> _RuntimeTaskInfo],
     excs |-> [m \in MappedValidators |-> <<>>]]

\* What provide(data_set) may yield: Parameters that pass the type check,
\* Parameters with a value of the wrong type, or an exception value.
Elements == {"Parameters", "TypeMismatch", "DefaultMismatch", "Exception"}
\* One Parameter of a Parameters object (validator.py, lines 88-102).  In place
\* of value and annotation it carries whether the value conforms to the
\* annotation of the parameter.
Parameter(name, provided, conforms) ==
    [name |-> name, provided |-> provided, conforms |-> conforms]
\* params.items() of the Parameters objects the providers yield, for a user
\* function f(x: X, y: Y = default).  A parameter missing in the data set has
\* provided = False and the default of the function as value
\* (path_map.py, lines 69-87); "DefaultMismatch" is a default that is no Y,
\* as in y: int = None.
items(params) ==
    CASE params = "Parameters" ->
            {Parameter("x", TRUE, TRUE), Parameter("y", TRUE, TRUE)}
      [] params = "TypeMismatch" ->
            {Parameter("x", TRUE, FALSE), Parameter("y", FALSE, TRUE)}
      [] params = "DefaultMismatch" ->
            {Parameter("x", TRUE, TRUE), Parameter("y", FALSE, FALSE)}
      [] OTHER -> {}
\* typeguard.check_type(param.param_id, param.value, annotation) returns
\* (TRUE) or raises TypeError (FALSE)
check_type(param) == param.conforms
\* _are_params_ok (execution.py, lines 197-222) without its calls of catch:
\* False for an exception, and False when check_type raises for one of the
\* items of the Parameters object
_are_params_ok(params_or_exc) ==
    /\ params_or_exc # "Exception"
    /\ \A param \in items(params_or_exc) : check_type(param)
\* The elements already yielded by the providers for the current data set
Yielded == provIdx["F"] + provIdx["G"] + provIdx["H"]
\* next(provide(data_set)): the generator is lazy; it ends ("StopIteration") or
\* yields one more element.  All providers together yield at most MaxProvided
\* elements for one data set.
NextYield ==
    {"StopIteration"} \cup (IF Yielded < MaxProvided THEN Elements ELSE {})

\* How one call of the user function can end.  "deadline" is the expiry of
\* asyncio.timeout while the function is suspended.
SyncOutcomes == {"return", "raise", "raiseTimeoutError"}
\* A synchronous function cannot be suspended: with a timeout it can still be
\* running when the deadline expires ("overrun") and then returns.
SyncOutcomesOf(mv) ==
    SyncOutcomes \cup (IF validators[mv].timeout # NoTimeout THEN {"overrun"} ELSE {})
AsyncOutcomes(mv) ==
    SyncOutcomes \cup (IF validators[mv].timeout # NoTimeout THEN {"deadline"} ELSE {})

NoCo == [m \in MappedValidators |-> "idle"]

\* One turn of the loop over provide(data_set): the element that was yielded
\* and how the call of the user function ended ("none": it was not called,
\* "pending": it is suspended)
Step(element, outcome) == [element |-> element, outcome |-> outcome]

\* provide has not been called
NoProvision == [call |-> <<>>, stage |-> "none", yielded |-> <<>>,
                invoked |-> <<>>, error_ids |-> <<>>]

\* The validate calls that overlap, and a fresh _RuntimeExecutionInfo: states
\* and tasks hold the entry of the one registered validator, running_tasks the
\* current_provided_params per task (<<"None", 0>> is None)
Calls == {1, 2}
NewInfo(data_set) ==
    [data_set |-> data_set, excs |-> <<>>, states |-> PENDING, tasks |-> 0,
     running_tasks |-> [t \in Calls |-> <<"None", 0>>]]
NotCreated == [stage |-> "none", pos |-> 0, data_set |-> "None", error_handler |-> 0]
NoOverlap ==
    [_runtime_execution_info |-> 0, infos |-> [c \in Calls |-> NewInfo("None")],
     pcs |-> [c \in Calls |-> "none"], task |-> [c \in Calls |-> NotCreated],
     num_params |-> 0]
\* migrate has not been called
NoMigration ==
    [stage |-> "none", mode |-> "none", validation_manager |-> FALSE,
     pagination_supported |-> FALSE, source |-> <<>>, chunk_size |-> 0,
     initial_offset |-> 0, upper_bound |-> [is_none |-> TRUE, value |-> 0],
     offset |-> 0, requested |-> <<>>, chunks |-> <<>>, loading_summaries |-> <<>>,
     target_loader |-> <<>>, raised |-> "None"]

\* No validate call has returned yet
NoPrevious == [data_sets |-> <<>>, history |-> <<>>, error_handlers |-> <<>>,
               returned |-> FALSE]

Init ==
    /\ validators = EmptyValidators
    /\ dependency_graph = EmptyGraph
    /\ is_async = [m \in MappedValidators |-> FALSE]
    /\ numCalls = 0
    /\ lastCall = NoCall
    /\ pc = "config"
    /\ raisedExc = ""
    /\ data_sets = <<>>
    /\ dataSetIdx = 0
    /\ error_handlers = [d \in {} |-> <<>>]
    /\ task_group = FALSE
    /\ visited = {}
    /\ info = _RuntimeExecutionInfo
    /\ vpc = NoCo
    /\ runDeps = [m \in MappedValidators |-> {}]
    /\ provIdx = [m \in MappedValidators |-> 0]
    /\ running = "None"
    /\ invoked = [m \in MappedValidators |-> <<>>]
    /\ trace = [m \in MappedValidators |-> <<>>]
    /\ _ERROR_ID_MAP = [i \in {} |-> 0]
    /\ constructed = {}
    /\ ctorExc = "None"
    /\ registered = {}
    /\ nodes = {}
    /\ history = <<>>
    /\ previous = NoPrevious
    /\ provision = NoProvision /\ overlap = NoOverlap /\ migration = NoMigration

\* Data sets are named by their id.  validate is called without a data set or
\* with one.
DataSetArgs == {<<>>, <<"r1">>}

\* validate(*data_sets): entry (line 335)
validate(ds) ==
    /\ pc = "config"
    /\ data_sets' = ds
    /\ lastCall' = NoCall
    /\ numCalls' = 0
    /\ IF ds = <<>>
       THEN pc' = "done" /\ dataSetIdx' = 0
       ELSE pc' = "begin" /\ dataSetIdx' = 1
    /\ error_handlers' = [d \in {} |-> <<>>]
    /\ history' = <<>>
    /\ UNCHANGED <<validators, dependency_graph, is_async, raisedExc,
                   task_group, visited, info, vpc, runDeps,
                   provIdx, running, invoked, trace, _ERROR_ID_MAP, previous>>
    /\ UNCHANGED mappedVars
    /\ UNCHANGED <<provision, overlap, migration>>

\* Variant: the ErrorHandler of the data set before is used again.
BeginDataSet_keeps_error_handler ==
    /\ pc = "begin"
    /\ info' = [_RuntimeExecutionInfo EXCEPT !.excs = info.excs]
    /\ visited' = {}
    /\ vpc' = NoCo
    /\ runDeps' = [m \in MappedValidators |-> {}]
    /\ provIdx' = [m \in MappedValidators |-> 0]
    /\ invoked' = [m \in MappedValidators |-> <<>>]
    /\ trace' = [m \in MappedValidators |-> <<>>]
    /\ running' = "None"
    /\ IF IsAcyclic(dependency_graph)
       THEN /\ pc' = "loop"
            /\ task_group' = (\E mv \in DOMAIN validators : is_async[mv])
            /\ UNCHANGED raisedExc
       ELSE /\ pc' = "raised"
            /\ raisedExc' = "NetworkXUnfeasible"
            /\ UNCHANGED task_group
    /\ error_handlers' =
          [d \in DOMAIN error_handlers \cup {data_sets[dataSetIdx]} |->
              IF d = data_sets[dataSetIdx] THEN info.excs
              ELSE error_handlers[d]]
    /\ UNCHANGED <<validators, dependency_graph, is_async, numCalls, lastCall,
                   data_sets, dataSetIdx, _ERROR_ID_MAP>>
    /\ UNCHANGED mappedVars
    /\ UNCHANGED callVars
    /\ UNCHANGED <<provision, overlap, migration>>

\* validate, lines 337-352: fresh runtime info, execution order, task group
BeginDataSet ==
    /\ pc = "begin"
    /\ info' = _RuntimeExecutionInfo
    /\ visited' = {}
    /\ vpc' = NoCo
    /\ runDeps' = [m \in MappedValidators |-> {}]
    /\ provIdx' = [m \in MappedValidators |-> 0]
    /\ invoked' = [m \in MappedValidators |-> <<>>]
    /\ trace' = [m \in MappedValidators |-> <<>>]
    /\ running' = "None"
    /\ IF IsAcyclic(dependency_graph)
       THEN /\ pc' = "loop"
            /\ task_group' = (\E mv \in DOMAIN validators : is_async[mv])
            /\ UNCHANGED raisedExc
       ELSE /\ pc' = "raised"
            /\ raisedExc' = "NetworkXUnfeasible"
            /\ UNCHANGED task_group
    /\ error_handlers' =
          [d \in DOMAIN error_handlers \cup {data_sets[dataSetIdx]} |->
              IF d = data_sets[dataSetIdx] THEN _RuntimeExecutionInfo.excs
              ELSE error_handlers[d]]
    /\ UNCHANGED <<validators, dependency_graph, is_async, numCalls, lastCall,
                   data_sets, dataSetIdx, _ERROR_ID_MAP>>
    /\ UNCHANGED mappedVars
    /\ UNCHANGED callVars
    /\ UNCHANGED <<provision, overlap, migration>>

\* An exception leaves the coroutine of mv: validate raises it (inline), or the
\* TaskGroup cancels the other tasks and validate raises an ExceptionGroup.
EscapeVpc(mv) ==
    [m \in MappedValidators |->
        IF m = mv THEN "crashed"
        ELSE IF vpc[m] \in {"created", "waiting", "invoking"} THEN "cancelled"
        ELSE vpc[m]]

cfgVars == <<validators, dependency_graph, is_async, numCalls, lastCall>>
setVars == <<data_sets, dataSetIdx, error_handlers, task_group>>

\* _execute_validators, lines 309-311
running_dependencies(inf, mv) ==
    {dependency \in validators[mv].depends_on : inf.states[dependency] = RUNNING}

\* _execute_validators, line 316: run as a task of the task group?
RunsAsTask(inf, mv) == is_async[mv] \/ running_dependencies(inf, mv) # {}

\* Variant: the errors of the dependencies are not looked at.
dep_exceptions_ignored(inf, mv) == {}

\* _dependency_errored, lines 180-184
dep_exceptions(inf, mv) ==
    {_dep \in validators[mv].depends_on : inf.excs[_dep] # <<>>}

\* The names of the failing dependencies that follow in the message are left out.
AbandonMessage == "Execution abandoned due to failing dependent validators"

\* _execute_sync_validator lines 275-276 / _execute_async_validator lines
\* 243-244: with a failing dependency the error is caught and the coroutine
\* returns; otherwise the loop over provide(data_set) is entered.
DependencyCheck(inf, mv) ==
    IF dep_exceptions(inf, mv) # {}
    THEN /\ info' = catch(inf, _ERROR_ID_MAP, AbandonMessage, "RuntimeError",
                          NotRaised, mv, ABANDON_EXEC)
         /\ vpc' = [vpc EXCEPT ![mv] = "returned"]
         /\ running' = "None"
    ELSE /\ info' = inf
         /\ vpc' = [vpc EXCEPT ![mv] = "provide"]
         /\ running' = mv

\* Variant: the execution order is not sorted.
NextInExecutionOrder_unsorted(mv) == mv \in dependency_graph.nodes \ visited

\* reversed(list(nx.topological_sort(dependency_graph))): mv can be the next
\* element of the execution order when every node it has an edge to came before.
NextInExecutionOrder(mv) ==
    /\ mv \in dependency_graph.nodes \ visited
    /\ Successors(dependency_graph, mv) \subseteq visited

\* _execute_validators: one iteration of the loop, up to the first suspension
\* or yield of the validator it starts.
PickUp(mv) ==
    /\ pc = "loop"
    /\ running = "None"
    /\ NextInExecutionOrder(mv)
    /\ visited' = visited \cup {mv}
    /\ LET inf1 == [info EXCEPT !.running_tasks[MainTask].current_mapped_validator = mv,
                                !.states[mv] = RUNNING]
       IN  IF \E d \in validators[mv].depends_on : inf1.states[d] = PENDING
           THEN /\ info' = inf1
                /\ pc' = "raised"
                /\ raisedExc' = "AssertionError"
                /\ vpc' = EscapeVpc("None")
                /\ UNCHANGED <<runDeps, running>>
           ELSE IF RunsAsTask(inf1, mv)
           THEN IF ~task_group
                THEN /\ info' = inf1
                     /\ pc' = "raised"
                     /\ raisedExc' = "AssertionError"
                     /\ UNCHANGED <<vpc, runDeps, running>>
                ELSE /\ info' = [inf1 EXCEPT !.tasks[mv] = mv]
                     /\ vpc' = [vpc EXCEPT ![mv] = "created"]
                     /\ runDeps' = [runDeps EXCEPT ![mv] = running_dependencies(inf1, mv)]
                     /\ UNCHANGED <<pc, raisedExc, running>>
           ELSE /\ DependencyCheck([inf1 EXCEPT !.tasks[mv] = MainTask], mv)
                /\ UNCHANGED <<pc, raisedExc, runDeps>>
    /\ UNCHANGED cfgVars
    /\ UNCHANGED setVars
    /\ UNCHANGED <<provIdx, invoked, trace, _ERROR_ID_MAP>>
    /\ UNCHANGED mappedVars
    /\ UNCHANGED callVars
    /\ UNCHANGED <<provision, overlap, migration>>

\* asyncio.Task.done() of the task stored in info.tasks; the main task is not
\* done before validate has returned.
TaskDone(task) ==
    /\ task \in MappedValidators
    /\ vpc[task] \in {"returned", "crashed", "cancelled"}

\* _execute_async_validator, lines 235-244: the task starts; with running
\* dependencies it suspends in asyncio.wait
TaskStart(mv) ==
    /\ pc = "join"
    /\ running = "None"
    /\ vpc[mv] = "created"
    /\ IF runDeps[mv] # {}
       THEN vpc' = [vpc EXCEPT ![mv] = "waiting"] /\ UNCHANGED <<running, info>>
       ELSE DependencyCheck(info, mv)
    /\ UNCHANGED cfgVars
    /\ UNCHANGED setVars
    /\ UNCHANGED <<pc, raisedExc, visited, runDeps, provIdx, invoked, trace,
                   _ERROR_ID_MAP>>
    /\ UNCHANGED mappedVars
    /\ UNCHANGED callVars
    /\ UNCHANGED <<provision, overlap, migration>>

\* Parameters objects are named by the validator and their position in provide
ParamsOf(mv, idx) == <<mv, idx>>

TimeoutMessage(timeout) ==
    CASE timeout = "0.1s" -> "Timeout (0.1s) during execution"
      [] OTHER -> "Timeout (?s) during execution"

\* pokemon_catcher is entered without a custom_error_id (lines 250, 283)
PokemonCustomErrorId == NoId

\* Variant: asyncio.wait returns without the dependencies being done.
WaitDone_without_wait(mv) ==
    /\ pc = "join"
    /\ running = "None"
    /\ vpc[mv] = "waiting"
    /\ DependencyCheck(info, mv)
    /\ UNCHANGED cfgVars
    /\ UNCHANGED setVars
    /\ UNCHANGED <<pc, raisedExc, visited, runDeps, provIdx, invoked, trace,
                   _ERROR_ID_MAP>>
    /\ UNCHANGED mappedVars
    /\ UNCHANGED callVars
    /\ UNCHANGED <<provision, overlap, migration>>

\* Variant: asyncio.timeout is entered before the wait for the dependencies,
\* so the deadline can expire while the validator waits.
WaitDone_inside_timeout(mv) ==
    /\ pc = "join"
    /\ running = "None"
    /\ vpc[mv] = "waiting"
    /\ \/ /\ \A dep \in runDeps[mv] : TaskDone(info.tasks[dep])
          /\ DependencyCheck(info, mv)
          /\ UNCHANGED _ERROR_ID_MAP
       \/ /\ validators[mv].timeout # NoTimeout
          /\ info' = catch(info, _ERROR_ID_MAP, TimeoutMessage(validators[mv].timeout),
                           "TimeoutError", DeadlineRaise, mv, PokemonCustomErrorId)
          /\ _ERROR_ID_MAP' =
                 catchRegistry(_ERROR_ID_MAP, DeadlineRaise, PokemonCustomErrorId)
          /\ vpc' = [vpc EXCEPT ![mv] = "returned"]
          /\ UNCHANGED running
    /\ UNCHANGED cfgVars
    /\ UNCHANGED setVars
    /\ UNCHANGED <<pc, raisedExc, visited, runDeps, provIdx, invoked, trace>>
    /\ UNCHANGED mappedVars
    /\ UNCHANGED callVars
    /\ UNCHANGED <<provision, overlap, migration>>

\* asyncio.wait(..., return_when=ALL_COMPLETED) returns (lines 236-244)
WaitDone(mv) ==
    /\ pc = "join"
    /\ running = "None"
    /\ vpc[mv] = "waiting"
    /\ \A dep \in runDeps[mv] : TaskDone(info.tasks[dep])
    /\ DependencyCheck(info, mv)
    /\ UNCHANGED cfgVars
    /\ UNCHANGED setVars
    /\ UNCHANGED <<pc, raisedExc, visited, runDeps, provIdx, invoked, trace,
                   _ERROR_ID_MAP>>
    /\ UNCHANGED mappedVars
    /\ UNCHANGED callVars
    /\ UNCHANGED <<provision, overlap, migration>>

\* The end of one call of the user function inside pokemon_catcher: its
\* except-branches, then back to the head of the loop.
Finish(inf, mv, outcome) ==
    CASE outcome \in {"return", "overrun"} ->
            \* nothing is raised inside the body of pokemon_catcher
            /\ info' = inf
            /\ vpc' = [vpc EXCEPT ![mv] = "provide"]
            /\ running' = mv
            /\ UNCHANGED <<_ERROR_ID_MAP, pc, raisedExc>>
      [] outcome = "raise" ->
            /\ info' = catch(inf, _ERROR_ID_MAP, "str(error)", "Exception",
                             UserRaise(mv), mv, PokemonCustomErrorId)
            /\ _ERROR_ID_MAP' =
                   catchRegistry(_ERROR_ID_MAP, UserRaise(mv), PokemonCustomErrorId)
            /\ vpc' = [vpc EXCEPT ![mv] = "provide"]
            /\ running' = mv
            /\ UNCHANGED <<pc, raisedExc>>
      [] OTHER ->
            \* except asyncio.TimeoutError: the deadline expired, or the user
            \* function itself raised a TimeoutError
            LET identifier == IF outcome = "deadline" THEN DeadlineRaise
                              ELSE UserRaiseTimeout(mv)
            IN  IF validators[mv].timeout = NoTimeout
                THEN \* None.total_seconds() raises inside the except-branch
                     /\ info' = inf
                     /\ pc' = "raised"
                     /\ raisedExc' = IF task_group THEN "ExceptionGroup"
                                     ELSE "AttributeError"
                     /\ vpc' = EscapeVpc(mv)
                     /\ running' = "None"
                     /\ UNCHANGED _ERROR_ID_MAP
                ELSE /\ info' = catch(inf, _ERROR_ID_MAP,
                                      TimeoutMessage(validators[mv].timeout),
                                      "TimeoutError", identifier, mv,
                                      PokemonCustomErrorId)
                     /\ _ERROR_ID_MAP' =
                            catchRegistry(_ERROR_ID_MAP, identifier, PokemonCustomErrorId)
                     /\ vpc' = [vpc EXCEPT ![mv] = "provide"]
                     /\ running' = mv
                     /\ UNCHANGED <<pc, raisedExc>>

\* _RuntimeExecutionInfo.current_provided_params of the task current_task
\* (lines 91-94), which is what param(name) looks the parameter up in
current_provided_params(inf, current_task) ==
    inf.running_tasks[current_task].current_provided_params
\* Variant: one current_provided_params for the whole manager, kept with the
\* main process.
set_current_provided_params_of_manager(inf, current_task, new_provided_params) ==
    [inf EXCEPT !.running_tasks[MainTask].current_provided_params = new_provided_params]
\* The setter of current_provided_params (lines 96-99)
set_current_provided_params(inf, current_task, new_provided_params) ==
    [inf EXCEPT !.running_tasks[current_task].current_provided_params =
                    new_provided_params]

\* Variant: an exception yielded by the provider ends the loop over provide.
NextElement_exception_ends(mv) ==
    /\ running = mv
    /\ vpc[mv] = "provide"
    /\ \E params_or_exc \in NextYield :
        IF params_or_exc = "StopIteration"
        THEN /\ info' = [info EXCEPT !.states[mv] = FINISHED]
             /\ vpc' = [vpc EXCEPT ![mv] = "returned"]
             /\ running' = "None"
             /\ UNCHANGED <<provIdx, invoked, trace, _ERROR_ID_MAP, pc, raisedExc>>
        ELSE LET idx == provIdx[mv] + 1
                 withParams == set_current_provided_params(info, info.tasks[mv],
                                                           ParamsOf(mv, idx))
             IN  /\ provIdx' = [provIdx EXCEPT ![mv] = idx]
                 /\ CASE params_or_exc = "Exception" ->
                           /\ info' = catch(info, _ERROR_ID_MAP, "str(params_or_exc)",
                                            "Exception", NotRaised, mv, PARAM_PROVIDER_ERRORED)
                           /\ trace' = [trace EXCEPT ![mv] =
                                  Append(@, Step(params_or_exc, "none"))]
                           /\ vpc' = [vpc EXCEPT ![mv] = "returned"]
                           /\ running' = "None"
                           /\ UNCHANGED <<invoked, _ERROR_ID_MAP, pc, raisedExc>>
                      [] params_or_exc # "Exception" /\ ~_are_params_ok(params_or_exc) ->
                           /\ info' = catch(withParams, _ERROR_ID_MAP, "str(error)",
                                            "TypeError", CheckTypeRaise, mv, PARAM_TYPE_MISMATCH)
                           /\ trace' = [trace EXCEPT ![mv] =
                                  Append(@, Step(params_or_exc, "none"))]
                           /\ UNCHANGED <<vpc, running, invoked, _ERROR_ID_MAP, pc,
                                          raisedExc>>
                      [] OTHER ->
                           /\ invoked' = [invoked EXCEPT
                                              ![mv] = Append(@, ParamsOf(mv, idx))]
                           /\ IF is_async[mv]
                              THEN /\ info' = withParams
                                   /\ vpc' = [vpc EXCEPT ![mv] = "invoking"]
                                   /\ running' = "None"
                                   /\ trace' = [trace EXCEPT ![mv] =
                                          Append(@, Step(params_or_exc, "pending"))]
                                   /\ UNCHANGED <<_ERROR_ID_MAP, pc, raisedExc>>
                              ELSE \E outcome \in SyncOutcomesOf(mv) :
                                       /\ Finish(withParams, mv, outcome)
                                       /\ trace' = [trace EXCEPT ![mv] =
                                              Append(@, Step(params_or_exc, outcome))]
    /\ UNCHANGED cfgVars
    /\ UNCHANGED setVars
    /\ UNCHANGED <<visited, runDeps>>
    /\ UNCHANGED mappedVars
    /\ UNCHANGED callVars
    /\ UNCHANGED <<provision, overlap, migration>>

\* One turn of the loop over provide(data_set) (lines 245-266, 278-289):
\* _are_params_ok, then the call of the user function inside pokemon_catcher.
\* A synchronous function runs to its end, an asynchronous one suspends.
\* When the generator is exhausted the state becomes FINISHED.
NextElement(mv) ==
    /\ running = mv
    /\ vpc[mv] = "provide"
    /\ \E params_or_exc \in NextYield :
        IF params_or_exc = "StopIteration"
        THEN /\ info' = [info EXCEPT !.states[mv] = FINISHED]
             /\ vpc' = [vpc EXCEPT ![mv] = "returned"]
             /\ running' = "None"
             /\ UNCHANGED <<provIdx, invoked, trace, _ERROR_ID_MAP, pc, raisedExc>>
        ELSE LET idx == provIdx[mv] + 1
                 withParams == set_current_provided_params(info, info.tasks[mv],
                                                           ParamsOf(mv, idx))
             IN  /\ provIdx' = [provIdx EXCEPT ![mv] = idx]
                 /\ CASE params_or_exc = "Exception" ->
                           /\ info' = catch(info, _ERROR_ID_MAP, "str(params_or_exc)",
                                            "Exception", NotRaised, mv, PARAM_PROVIDER_ERRORED)
                           /\ trace' = [trace EXCEPT ![mv] =
                                  Append(@, Step(params_or_exc, "none"))]
                           /\ UNCHANGED <<vpc, running, invoked, _ERROR_ID_MAP, pc,
                                          raisedExc>>
                      [] params_or_exc # "Exception" /\ ~_are_params_ok(params_or_exc) ->
                           /\ info' = catch(withParams, _ERROR_ID_MAP, "str(error)",
                                            "TypeError", CheckTypeRaise, mv, PARAM_TYPE_MISMATCH)
                           /\ trace' = [trace EXCEPT ![mv] =
                                  Append(@, Step(params_or_exc, "none"))]
                           /\ UNCHANGED <<vpc, running, invoked, _ERROR_ID_MAP, pc,
                                          raisedExc>>
                      [] OTHER ->
                           /\ invoked' = [invoked EXCEPT
                                              ![mv] = Append(@, ParamsOf(mv, idx))]
                           /\ IF is_async[mv]
                              THEN /\ info' = withParams
                                   /\ vpc' = [vpc EXCEPT ![mv] = "invoking"]
                                   /\ running' = "None"
                                   /\ trace' = [trace EXCEPT ![mv] =
                                          Append(@, Step(params_or_exc, "pending"))]
                                   /\ UNCHANGED <<_ERROR_ID_MAP, pc, raisedExc>>
                              ELSE \E outcome \in SyncOutcomesOf(mv) :
                                       /\ Finish(withParams, mv, outcome)
                                       /\ trace' = [trace EXCEPT ![mv] =
                                              Append(@, Step(params_or_exc, outcome))]
    /\ UNCHANGED cfgVars
    /\ UNCHANGED setVars
    /\ UNCHANGED <<visited, runDeps>>
    /\ UNCHANGED mappedVars
    /\ UNCHANGED callVars
    /\ UNCHANGED <<provision, overlap, migration>>

\* The event loop resumes a suspended asynchronous user function, which ends.
Resume(mv) ==
    /\ pc = "join"
    /\ running = "None"
    /\ vpc[mv] = "invoking"
    /\ \E outcome \in AsyncOutcomes(mv) :
          /\ Finish(info, mv, outcome)
          /\ trace' = [trace EXCEPT ![mv][Len(trace[mv])].outcome = outcome]
    /\ UNCHANGED cfgVars
    /\ UNCHANGED setVars
    /\ UNCHANGED <<visited, runDeps, provIdx, invoked>>
    /\ UNCHANGED mappedVars
    /\ UNCHANGED callVars
    /\ UNCHANGED <<provision, overlap, migration>>

\* validate, lines 336 and 357: next data set, or the ValidationResult
EndDataSet ==
    /\ error_handlers' = [error_handlers EXCEPT ![data_sets[dataSetIdx]] = info.excs]
    /\ history' = Append(history, [data_set |-> data_sets[dataSetIdx],
                                    excs |-> info.excs, trace |-> trace])
    /\ IF dataSetIdx < Len(data_sets)
       THEN dataSetIdx' = dataSetIdx + 1 /\ pc' = "begin"
       ELSE pc' = "done" /\ UNCHANGED dataSetIdx

\* _execute_validators returns: without a task group the data set is done,
\* with one the main task waits in TaskGroup.__aexit__
LoopEnd ==
    /\ pc = "loop"
    /\ running = "None"
    /\ visited = dependency_graph.nodes
    /\ IF task_group
       THEN pc' = "join" /\ UNCHANGED <<dataSetIdx, error_handlers, history>>
       ELSE EndDataSet
    /\ UNCHANGED cfgVars
    /\ UNCHANGED <<raisedExc, data_sets, task_group, visited, info, vpc, runDeps,
                   provIdx, running, invoked, trace, _ERROR_ID_MAP>>
    /\ UNCHANGED mappedVars
    /\ UNCHANGED previous
    /\ UNCHANGED <<provision, overlap, migration>>

\* TaskGroup.__aexit__ returns when every task of the group is done
JoinEnd ==
    /\ pc = "join"
    /\ running = "None"
    /\ \A mv \in MappedValidators : info.tasks[mv] = mv => TaskDone(mv)
    /\ EndDataSet
    /\ UNCHANGED cfgVars
    /\ UNCHANGED <<raisedExc, data_sets, task_group, visited, info, vpc, runDeps,
                   provIdx, running, invoked, trace, _ERROR_ID_MAP>>
    /\ UNCHANGED mappedVars
    /\ UNCHANGED previous
    /\ UNCHANGED <<provision, overlap, migration>>

Next ==
    \/ \E mv \in MappedValidators, depends_on \in SUBSET MappedValidators,
          timeout \in Timeouts, async \in BOOLEAN :
            register(mv, depends_on, timeout, async)
    \/ \E ds \in DataSetArgs : validate(ds)
    \/ BeginDataSet
    \/ \E mv \in MappedValidators : PickUp(mv)
    \/ \E mv \in MappedValidators : TaskStart(mv)
    \/ \E mv \in MappedValidators : WaitDone(mv)
    \/ \E mv \in MappedValidators : NextElement(mv)
    \/ \E mv \in MappedValidators : Resume(mv)
    \/ LoopEnd
    \/ JoinEnd

Spec == Init /\ [][Next]_vars

\* The configuration phase alone: register calls on a new ValidationManager
NextRegister ==
    \E mv \in MappedValidators, depends_on \in SUBSET MappedValidators,
       timeout \in Timeouts, async \in BOOLEAN :
         register(mv, depends_on, timeout, async)

SpecRegister == Init /\ [][NextRegister]_vars

\* ------------------------------------------------------- mapped validators
\* Validator objects, named by their func: def f(x: X, y: Y = ...) and
\* def g(x: X, z: Z = ...).  Validator.__eq__ compares func (validator.py, 77-78).
ValidatorFunctions == {"f", "g"}
\* Validator.param_names (validator.py, line 62)
param_names(validator) == IF validator = "f" THEN {"x", "y"} ELSE {"x", "z"}
\* Validator.required_param_names (validator.py, lines 63-67)
required_param_names(validator) == {"x"}
\* The parameter names a caller can write into a parameter map
ParamNames == {"x", "y", "z"}
\* A parameter map name -> attribute path, as the set of its items
PathParamMaps == {{<<k, k>> : k \in K} : K \in SUBSET ParamNames}
\* A parameter map name -> Query, as the set of its items.  Query has no
\* __eq__, so a Query equals itself only; one Query object serves every name.
QueryParamMaps == {{<<k, "Query">> : k \in K} : K \in SUBSET ParamNames}

\* PathMappedValidator.__init__, lines 19-23: the object before its validation
PathMappedValidator(validator, param_maps) ==
    [cls |-> "PathMappedValidator", validator |-> validator, maps |-> param_maps]
\* QueryMappedValidator.__init__, lines 147-149; its one param_map is kept
\* as a tuple of length one
QueryMappedValidator(validator, param_map) ==
    [cls |-> "QueryMappedValidator", validator |-> validator, maps |-> <<param_map>>]

\* PathMappedValidator._validate_param_maps, lines 26-39: TRUE when it
\* returns, FALSE when it raises ValueError
_validate_param_maps(self) ==
    \A i \in DOMAIN self.maps :
        LET mapped_params == {item[1] : item \in self.maps[i]}
        IN  /\ mapped_params \subseteq param_names(self.validator)
            /\ required_param_names(self.validator) \subseteq mapped_params

\* __eq__ of PathMappedValidator (path_map.py, 41-46) and of
\* QueryMappedValidator (query_map.py, 212-213)
__eq__(self, other) ==
    IF self.cls = "PathMappedValidator"
    THEN /\ other.cls = "PathMappedValidator"
         /\ self.validator = other.validator
         /\ self.maps = other.maps
    ELSE /\ other.cls = "QueryMappedValidator"
         /\ self.maps = other.maps

\* __hash__ of PathMappedValidator (path_map.py, 55-56) and of
\* QueryMappedValidator (query_map.py, 218-219), as the values hashed
__hash__(self) ==
    IF self.cls = "PathMappedValidator"
    THEN <<self.maps, self.validator>>
    ELSE <<self.maps, "">>

\* A dict or graph keeps the key it has when an equal key is stored again
\* (register: dependency_graph.add_node and validators[mapped_validator] = ...)
add_node(keys, mapped_validator) ==
    IF \E n \in keys : __hash__(n) = __hash__(mapped_validator)
                          /\ __eq__(n, mapped_validator)
    THEN keys
    ELSE keys \cup {mapped_validator}

\* PathMappedValidator(validator, *param_maps)
ConstructPath(validator, param_maps) ==
    /\ pc = "config"
    /\ Cardinality(constructed) < MaxMapped
    /\ LET self == PathMappedValidator(validator, param_maps)
       IN  IF _validate_param_maps(self)
           THEN constructed' = constructed \cup {self} /\ ctorExc' = "None"
           ELSE ctorExc' = "ValueError" /\ UNCHANGED constructed
    /\ UNCHANGED <<registered, nodes>>
    /\ UNCHANGED cfgVars
    /\ UNCHANGED runVars
    /\ UNCHANGED callVars
    /\ UNCHANGED <<provision, overlap, migration>>

\* QueryMappedValidator(validator, param_map)
ConstructQuery(validator, param_map) ==
    /\ pc = "config"
    /\ Cardinality(constructed) < MaxMapped
    /\ constructed' = constructed \cup {QueryMappedValidator(validator, param_map)}
    /\ ctorExc' = "None"
    /\ UNCHANGED <<registered, nodes>>
    /\ UNCHANGED cfgVars
    /\ UNCHANGED runVars
    /\ UNCHANGED callVars
    /\ UNCHANGED <<provision, overlap, migration>>

\* register(mapped_validator) of a constructed mapped validator, as far as
\* the identity of the mapped validator is concerned
RegisterMapped(mapped_validator) ==
    /\ pc = "config"
    /\ mapped_validator \in constructed \ registered
    /\ registered' = registered \cup {mapped_validator}
    /\ nodes' = add_node(nodes, mapped_validator)
    /\ UNCHANGED <<constructed, ctorExc>>
    /\ UNCHANGED cfgVars
    /\ UNCHANGED runVars
    /\ UNCHANGED callVars
    /\ UNCHANGED <<provision, overlap, migration>>

TuplesOf(S, n) == UNION {[1..k -> S] : k \in 0..n}

NextMapped ==
    \/ \E validator \in ValidatorFunctions,
          param_maps \in TuplesOf(PathParamMaps, MaxParamMaps) :
            ConstructPath(validator, param_maps)
    \/ \E validator \in ValidatorFunctions, param_map \in QueryParamMaps :
            ConstructQuery(validator, param_map)
    \/ \E mapped_validator \in constructed : RegisterMapped(mapped_validator)

SpecMapped == Init /\ [][NextMapped]_vars

\* --------------------------------------------------------- ValidationResult
\* itertools.chain.from_iterable(error_handler.excs.values()); the model
\* lists the mapped validators in the order F, G, H
chain(excs) == excs["F"] \o excs["G"] \o excs["H"]
\* len(error_handler.excs): excs has a key once an error was appended for it
len_excs(excs) == Cardinality({m \in MappedValidators : excs[m] # <<>>})
\* ValidationResult._determine_succeeds and the two properties it fills
succeeded_data_sets(handlers) ==
    {data_set \in DOMAIN handlers : ~(len_excs(handlers[data_set]) > 0)}
data_set_errors(handlers) ==
    [data_set \in {d \in DOMAIN handlers : len_excs(handlers[d]) > 0} |->
        chain(handlers[data_set])]
\* itertools.chain.from_iterable(self.data_set_errors.values())
RECURSIVE chain_values(_, _)
chain_values(dict, keys) ==
    IF keys = {} THEN <<>>
    ELSE LET k == CHOOSE k \in keys : TRUE
         IN  dict[k] \o chain_values(dict, keys \ {k})
_extract_error_id(validation_error) == validation_error.error_id
\* Variant: the errors stay in the order of the chain.
all_errors_unsorted(handlers) ==
    LET errors == data_set_errors(handlers)
    IN  IF Cardinality(DOMAIN errors) > 0
        THEN chain_values(errors, DOMAIN errors)
        ELSE <<>>
\* ValidationResult.all_errors: sorted by error id
all_errors(handlers) ==
    LET errors == data_set_errors(handlers)
    IN  IF Cardinality(DOMAIN errors) > 0
        THEN SortSeq(chain_values(errors, DOMAIN errors),
                     LAMBDA a, b : _extract_error_id(a) < _extract_error_id(b))
        ELSE <<>>
\* ValidationResult.num_errors_total
num_errors_total(handlers) == Len(all_errors(handlers))
\* itertools.groupby(iterable, key=_extract_error_id): one group per run of
\* consecutive elements with the same key, as <<key, number of elements>>
RECURSIVE groupby(_)
groupby(iterable) ==
    IF iterable = <<>> THEN <<>>
    ELSE LET rest == groupby(Tail(iterable))
             key == _extract_error_id(Head(iterable))
         IN  IF rest # <<>> /\ rest[1][1] = key
             THEN <<<<key, rest[1][2] + 1>>>> \o Tail(rest)
             ELSE <<<<key, 1>>>> \o rest
\* ValidationResult.num_errors_per_id: the dict comprehension over the groups,
\* in which a later group with the same key replaces an earlier one
num_errors_per_id(handlers) ==
    LET groups == groupby(all_errors(handlers))
    IN  [key \in {groups[g][1] : g \in DOMAIN groups} |->
            LET last == CHOOSE g \in DOMAIN groups :
                            /\ groups[g][1] = key
                            /\ \A h \in DOMAIN groups : groups[h][1] = key => h <= g
            IN  groups[last][2]]

\* ------------------------------------------------- batches and repeated calls
\* Data sets are named by their id; the same name twice is the same data set
\* passed twice.  The names are interchangeable: the first of a batch is r1.
DataSets == {"r1", "r2"}
DataSetBatches ==
    {ds \in UNION {[1..n -> DataSets] : n \in 1..MaxDataSets} : ds[1] = "r1"}

\* A manager after register(F) and register(G, depends_on={F}, timeout=0.1s),
\* both with synchronous or both with asynchronous user functions
InitBatch ==
    \E async \in BOOLEAN, timeout \in Timeouts \ {NoTimeout} :
        /\ validators = [m \in {"F", "G"} |->
                            IF m = "F" THEN _ExecutionInfo({}, NoTimeout)
                            ELSE _ExecutionInfo({"F"}, timeout)]
        /\ dependency_graph =
              AddToGraph(AddToGraph(EmptyGraph, "F", {}), "G", {<<"G", "F">>})
        /\ is_async = [m \in MappedValidators |-> async /\ m \in {"F", "G"}]
        /\ numCalls = 2
        /\ lastCall = [mapped_validator |-> "G", depends_on |-> {"F"},
                       timeout |-> timeout, registered_before |-> FALSE,
                       result |-> "ok"]
        /\ pc = "config"
        /\ raisedExc = ""
        /\ data_sets = <<>>
        /\ dataSetIdx = 0
        /\ error_handlers = [d \in {} |-> <<>>]
        /\ task_group = FALSE
        /\ visited = {}
        /\ info = _RuntimeExecutionInfo
        /\ vpc = NoCo
        /\ runDeps = [m \in MappedValidators |-> {}]
        /\ provIdx = [m \in MappedValidators |-> 0]
        /\ running = "None"
        /\ invoked = [m \in MappedValidators |-> <<>>]
        /\ trace = [m \in MappedValidators |-> <<>>]
        /\ _ERROR_ID_MAP = [i \in {} |-> 0]
        /\ constructed = {}
        /\ ctorExc = "None"
        /\ registered = {}
        /\ nodes = {}
        /\ history = <<>>
        /\ previous = NoPrevious
        /\ provision = NoProvision /\ overlap = NoOverlap /\ migration = NoMigration

\* validate returns its ValidationResult to the caller (line 366), who may
\* call validate once more
Return ==
    /\ pc = "done"
    /\ ~previous.returned
    /\ previous' = [data_sets |-> data_sets, history |-> history,
                    error_handlers |-> error_handlers, returned |-> TRUE]
    /\ pc' = "config"
    /\ UNCHANGED cfgVars
    /\ UNCHANGED <<raisedExc, data_sets, dataSetIdx, error_handlers, task_group,
                   visited, info, vpc, runDeps, provIdx, running, invoked, trace,
                   _ERROR_ID_MAP, history>>
    /\ UNCHANGED mappedVars
    /\ UNCHANGED <<provision, overlap, migration>>

\* The providers and the user functions are deterministic: in a second call
\* with the same data sets, provide yields for mv what it yielded in the first
\* call and the user function ends as it ended in the first call.
SameAsBefore(mv) ==
    previous.returned =>
        LET before == previous.history[dataSetIdx].trace[mv]
        IN  /\ Len(trace'[mv]) <= Len(before)
            /\ \A i \in DOMAIN trace'[mv] :
                  /\ trace'[mv][i].element = before[i].element
                  /\ trace'[mv][i].outcome \in {before[i].outcome, "pending"}
            /\ trace'[mv] = trace[mv] => trace[mv] = before

NextBatch ==
    \/ \E ds \in DataSetBatches :
          validate(ds) /\ (previous.returned => ds = previous.data_sets)
    \/ BeginDataSet
    \/ \E mv \in MappedValidators : PickUp(mv)
    \/ \E mv \in MappedValidators : TaskStart(mv)
    \/ \E mv \in MappedValidators : WaitDone(mv)
    \/ \E mv \in MappedValidators : NextElement(mv) /\ SameAsBefore(mv)
    \/ \E mv \in MappedValidators : Resume(mv) /\ SameAsBefore(mv)
    \/ LoopEnd
    \/ JoinEnd
    \/ Return

SpecBatch == InitBatch /\ [][NextBatch]_vars

\* ------------------------------------------------------- the id registry
\* Raise sites in three more user functions of the same file.  The first id
\* drawn for the first and the id drawn for the other two are each the redraw
\* of the other: random.seed(3073600) draws 7570111 and random.seed(7570111)
\* draws 3073600 in CPython; of randint here the pair is 2984418, 2921918.
CycleRaises ==
    {<<"validators.py", "validate_a", 8>>, <<"validators.py", "validate_b", 1>>,
     <<"validators.py", "validate_c", 16>>}

\* The raise sites of one process
Identifiers ==
    {UserRaise(mv) : mv \in MappedValidators}
        \cup {UserRaiseTimeout(mv) : mv \in MappedValidators}
        \cup {DeadlineRaise, CheckTypeRaise, OtherRaise}
        \cup CycleRaises

\* _get_error_id(identifier), called for an error raised at identifier
GetErrorId(identifier) ==
    /\ pc = "config"
    /\ identifier \notin DOMAIN _ERROR_ID_MAP
    /\ IF _get_error_id_returns(_ERROR_ID_MAP, identifier)
       THEN /\ _ERROR_ID_MAP' = RegistryAfter(_ERROR_ID_MAP, identifier)
            /\ UNCHANGED pc
       ELSE \* the while-loop never reaches its break
            /\ pc' = "looping"
            /\ UNCHANGED _ERROR_ID_MAP
    /\ UNCHANGED cfgVars
    /\ UNCHANGED <<raisedExc, data_sets, dataSetIdx, error_handlers, task_group,
                   visited, info, vpc, runDeps, provIdx, running, invoked, trace>>
    /\ UNCHANGED mappedVars
    /\ UNCHANGED callVars
    /\ UNCHANGED <<provision, overlap, migration>>

NextErrorIds == \E identifier \in Identifiers : GetErrorId(identifier)

\* A process in which errors are raised at the raise sites in any order
SpecErrorIds == Init /\ [][NextErrorIds]_vars

\* ------------------------------------------------------------------ provide
\* The parameters of the user function def f(x: X, y: Y); which of them have
\* a default is part of the call.
SignatureNames == {"x", "y"}
\* The orders in which a parameter map can list the names in keys
RECURSIVE Orders(_)
Orders(keys) ==
    IF keys = {} THEN {<<>>}
    ELSE UNION {{<<k>> \o rest : rest \in Orders(keys \ {k})} : k \in keys}

\* Parameter(mapped_validator, name, value, param_id, provided) with, in
\* place of the value, whether the value conforms to the annotation
BoundParameter(name, param_id, provided, conforms) ==
    [name |-> name, param_id |-> param_id, provided |-> provided,
     conforms |-> conforms]
\* What provide yields: Parameters(self, **parameter_values), or an exception
YieldParameters(parameter_values) ==
    [kind |-> "Parameters", params |-> parameter_values, exc |-> <<>>]
YieldException(origin) ==
    [kind |-> "Exception", params |-> <<>>, exc |-> origin]

RECURSIVE Flatten(_)
Flatten(seqs) == IF seqs = <<>> THEN <<>> ELSE Head(seqs) \o Flatten(Tail(seqs))

\* -- PathMappedValidator.provide (path_map.py, lines 61-90)
\* The attribute path of parameter name in the map at position m; every map
\* points to a location of its own in the data set.
attr_path(name, m) == <<name, m>>
\* The loop over param_map.items() from position k on: required_field finds
\* the path in the data set or raises AttributeError.  The values found in the
\* data set conform to the annotations.
RECURSIVE fill(_, _, _, _)
fill(call, m, k, parameter_values) ==
    LET param_map == call.param_maps[m]
    IN  IF k > Len(param_map)
        THEN YieldParameters(parameter_values)
        ELSE LET param_name == param_map[k]
                 path == attr_path(param_name, m)
             IN  IF path \in call.present
                 THEN fill(call, m, k + 1, parameter_values @@
                          (param_name :> BoundParameter(param_name, path, TRUE, TRUE)))
                 ELSE IF param_name \notin call.optional_param_names
                      THEN YieldException(path)
                      ELSE fill(call, m, k + 1, parameter_values @@
                               (param_name :> BoundParameter(param_name, path, FALSE,
                                                             call.default_conforms)))
\* Variant: the first map that cannot be filled ends the generator.
provide_path_until_error(call) ==
    LET all == [m \in DOMAIN call.param_maps |-> fill(call, m, 1, <<>>)]
        failing == {m \in DOMAIN all : all[m].kind = "Exception"}
    IN  IF failing = {} THEN all
        ELSE SubSeq(all, 1, CHOOSE m \in failing : \A n \in failing : m <= n)
provide_path(call) == [m \in DOMAIN call.param_maps |-> fill(call, m, 1, <<>>)]

\* -- QueryMappedValidator.provide (query_map.py, lines 151-210)
\* The elements a Query yields for the data set, a value or an exception
\* each, with the position as id
QueryElements(kinds) == [i \in DOMAIN kinds |-> [kind |-> kinds[i], id |-> i]]
IsException(el) == el.kind = "exception"
IsValue(el) == el.kind # "exception"
\* Variant: the exceptions stay in the iterable of a required parameter.
pool_all_elements(elements, include_exceptions) == elements
\* _QueryIterable: what itertools.product gets from iterating it once
pool(elements, include_exceptions) ==
    IF include_exceptions THEN elements ELSE SelectSeq(elements, IsValue)
\* _QueryIterable.cur_exceptions after that iteration
cur_exceptions(elements) == SelectSeq(elements, IsException)
\* itertools.product(*pools): the last pool varies fastest
RECURSIVE product(_)
product(pools) ==
    IF pools = <<>> THEN << <<>> >>
    ELSE LET rest == product(Tail(pools))
         IN  Flatten([i \in DOMAIN Head(pools) |->
                         [j \in DOMAIN rest |-> <<Head(pools)[i]>> \o rest[j]]])
\* QueryMappedValidator.param_sets: the tuples of the product, then the
\* exceptions of the required parameters
param_sets(call) ==
    LET names == call.param_map
        elements(k) == QueryElements(call.results[names[k]])
        optional(k) == names[k] \in call.optional_param_names
        tuples == product([k \in DOMAIN names |-> pool(elements(k), optional(k))])
        captured == Flatten([k \in DOMAIN names |->
                       IF optional(k) THEN <<>>
                       ELSE [i \in DOMAIN cur_exceptions(elements(k)) |->
                                <<names[k], cur_exceptions(elements(k))[i].id>>]])
    IN  [t \in DOMAIN tuples |-> [is_exception |-> FALSE, dict |-> tuples[t],
                                  exception |-> <<>>]]
        \o [i \in DOMAIN captured |-> [is_exception |-> TRUE, dict |-> <<>>,
                                       exception |-> captured[i]]]
provide_query(call) ==
    LET names == call.param_map
        sets == param_sets(call)
        parameter(k, param_value) ==
            IF IsException(param_value)
            THEN BoundParameter(names[k], <<names[k], 0>>, FALSE, call.default_conforms)
            ELSE BoundParameter(names[k], <<names[k], param_value.id>>, TRUE, TRUE)
    IN  [p \in DOMAIN sets |->
            IF sets[p].is_exception
            THEN YieldException(sets[p].exception)
            ELSE YieldParameters(
                     [name \in {names[k] : k \in DOMAIN names} |->
                         LET k == CHOOSE k \in DOMAIN names : names[k] = name
                         IN  parameter(k, sets[p].dict[k])])]

\* -- the calls of provide
QueryResults == UNION {[1..n -> {"value", "exception"}] : n \in 0..MaxQueryLen}
QueryCalls ==
    {[cls |-> "QueryMappedValidator", optional_param_names |-> optional,
      param_map |-> param_map, results |-> results,
      default_conforms |-> default_conforms] :
        optional \in SUBSET SignatureNames,
        param_map \in UNION {Orders(keys) : keys \in SUBSET SignatureNames},
        results \in [SignatureNames -> QueryResults],
        default_conforms \in BOOLEAN}
\* The parameter maps _validate_param_maps accepts
PathMapsOf(optional) ==
    UNION {Orders(keys) : keys \in {K \in SUBSET SignatureNames :
                                       SignatureNames \ optional \subseteq K}}
PathCalls ==
    UNION {{[cls |-> "PathMappedValidator", optional_param_names |-> optional,
             param_maps |-> param_maps, present |-> present,
             default_conforms |-> default_conforms] :
               param_maps \in TuplesOf(PathMapsOf(optional), MaxParamMaps),
               present \in SUBSET (SignatureNames \X (1..MaxParamMaps)),
               default_conforms \in BOOLEAN} :
           optional \in SUBSET SignatureNames}

\* Parameters.param_dict: the provided parameters only (validator.py, 121-123)
param_dict(params) == {name \in DOMAIN params : params[name].provided}
\* The loop of the manager over what provide yielded (execution.py, 245-266):
\* _are_params_ok, then the call of the user function, which returns
TypesOk(el) == \A name \in DOMAIN el.params : check_type(el.params[name])
IsInvoked(el) == el.kind = "Parameters" /\ TypesOk(el)
IsRefused(el) == ~IsInvoked(el)
ErrorIdOf(el) ==
    IF el.kind = "Exception" THEN PARAM_PROVIDER_ERRORED ELSE PARAM_TYPE_MISMATCH

InitProvide ==
    /\ validators = EmptyValidators
    /\ dependency_graph = EmptyGraph
    /\ is_async = [m \in MappedValidators |-> FALSE]
    /\ numCalls = 0
    /\ lastCall = NoCall
    /\ pc = "config"
    /\ raisedExc = ""
    /\ data_sets = <<>>
    /\ dataSetIdx = 0
    /\ error_handlers = [d \in {} |-> <<>>]
    /\ task_group = FALSE
    /\ visited = {}
    /\ info = _RuntimeExecutionInfo
    /\ vpc = NoCo
    /\ runDeps = [m \in MappedValidators |-> {}]
    /\ provIdx = [m \in MappedValidators |-> 0]
    /\ running = "None"
    /\ invoked = [m \in MappedValidators |-> <<>>]
    /\ trace = [m \in MappedValidators |-> <<>>]
    /\ _ERROR_ID_MAP = [i \in {} |-> 0]
    /\ constructed = {}
    /\ ctorExc = "None"
    /\ registered = {}
    /\ nodes = {}
    /\ history = <<>>
    /\ previous = NoPrevious
    /\ overlap = NoOverlap
    /\ migration = NoMigration
    /\ \E call \in QueryCalls \cup PathCalls :
          provision = [NoProvision EXCEPT !.call = call, !.stage = "called"]

\* list(mapped_validator.provide(data_set)) of a path-mapped validator
ProvidePath ==
    /\ provision.stage = "called"
    /\ provision.call.cls = "PathMappedValidator"
    /\ provision' = [provision EXCEPT !.stage = "yielded",
                                      !.yielded = provide_path(provision.call)]
    /\ UNCHANGED <<cfgVars, runVars, mappedVars, callVars, overlap, migration>>

\* list(mapped_validator.provide(data_set)) of a query-mapped validator
ProvideQuery ==
    /\ provision.stage = "called"
    /\ provision.call.cls = "QueryMappedValidator"
    /\ provision' = [provision EXCEPT !.stage = "yielded",
                                      !.yielded = provide_query(provision.call)]
    /\ UNCHANGED <<cfgVars, runVars, mappedVars, callVars, overlap, migration>>

\* The manager takes the yielded elements one after the other
ExecuteProvided ==
    /\ provision.stage = "yielded"
    /\ provision' =
          [provision EXCEPT
              !.stage = "executed",
              !.invoked = SelectSeq(provision.yielded, IsInvoked),
              !.error_ids = LET refused == SelectSeq(provision.yielded, IsRefused)
                            IN  [i \in DOMAIN refused |-> ErrorIdOf(refused[i])]]
    /\ UNCHANGED <<cfgVars, runVars, mappedVars, callVars, overlap, migration>>

NextProvide == ProvidePath \/ ProvideQuery \/ ExecuteProvided

SpecProvide == InitProvide /\ [][NextProvide]_vars

\* ------------------------------------------- overlapping calls of validate
\* Two calls of validate on the same manager, awaited concurrently, call c
\* with the one data set DataSetOf(c).  One validator is registered, an async
\* one whose function awaits; provide yields num_params Parameters.  The
\* manager's attribute _runtime_execution_info refers to the info object of
\* the call that assigned it last (execution.py, lines 120-132, 335-345).
DataSetOf(c) == IF c = 1 THEN "r1" ELSE "r2"

\* _execute_async_validator from the head of an iteration of its loop up to
\* where it suspends: self.info is read anew wherever the code reads it
resume(ov, c) ==
    LET cur == ov._runtime_execution_info
        t == ov.task[c]
    IN  IF t.pos = ov.num_params
        THEN [ov EXCEPT !.infos[cur].states = FINISHED,
                        !.task[c].stage = "done"]
        ELSE [ov EXCEPT !.infos[cur].running_tasks[c] = <<t.data_set, t.pos + 1>>,
                        !.task[c].error_handler = cur,
                        !.task[c].stage = "in_func"]

InitOverlap ==
    /\ validators = EmptyValidators
    /\ dependency_graph = EmptyGraph
    /\ is_async = [m \in MappedValidators |-> FALSE]
    /\ numCalls = 0
    /\ lastCall = NoCall
    /\ pc = "config"
    /\ raisedExc = ""
    /\ data_sets = <<>>
    /\ dataSetIdx = 0
    /\ error_handlers = [d \in {} |-> <<>>]
    /\ task_group = FALSE
    /\ visited = {}
    /\ info = _RuntimeExecutionInfo
    /\ vpc = NoCo
    /\ runDeps = [m \in MappedValidators |-> {}]
    /\ provIdx = [m \in MappedValidators |-> 0]
    /\ running = "None"
    /\ invoked = [m \in MappedValidators |-> <<>>]
    /\ trace = [m \in MappedValidators |-> <<>>]
    /\ _ERROR_ID_MAP = [i \in {} |-> 0]
    /\ constructed = {}
    /\ ctorExc = "None"
    /\ registered = {}
    /\ nodes = {}
    /\ history = <<>>
    /\ previous = NoPrevious
    /\ migration = NoMigration
    /\ provision = NoProvision
    /\ \E n \in 1..MaxProvided :
          overlap = [NoOverlap EXCEPT !.pcs = [c \in Calls |-> "idle"],
                                      !.num_params = n]

\* validate up to the exit of the TaskGroup: the new info object is assigned
\* to the manager, _execute_validators marks the validator RUNNING and creates
\* its task (execution.py, lines 335-353, 305-322)
validate_enter(c) ==
    /\ overlap.pcs[c] = "idle"
    /\ overlap' = [overlap EXCEPT
                      !._runtime_execution_info = c,
                      !.infos[c] = [NewInfo(DataSetOf(c)) EXCEPT !.states = RUNNING,
                                                                 !.tasks = c],
                      !.pcs[c] = "join",
                      !.task[c].stage = "created"]
    /\ UNCHANGED <<cfgVars, runVars, mappedVars, callVars, provision, migration>>

\* The task starts: provide(self.info.data_set), then the first iteration
task_start(c) ==
    /\ overlap.task[c].stage = "created"
    /\ LET cur == overlap._runtime_execution_info
       IN  overlap' = resume([overlap EXCEPT
                                 !.task[c].data_set = overlap.infos[cur].data_set], c)
    /\ UNCHANGED <<cfgVars, runVars, mappedVars, callVars, provision, migration>>

\* The awaited user function returns or raises: pokemon_catcher records in
\* the ErrorHandler it was entered with, then the loop goes on
func_ends(c, raises) ==
    /\ overlap.task[c].stage = "in_func"
    /\ LET t == overlap.task[c]
           error == [data_set |-> t.data_set, call |-> c]
       IN  overlap' = resume([overlap EXCEPT
                                 !.task[c].pos = t.pos + 1,
                                 !.infos[t.error_handler].excs =
                                     IF raises THEN Append(@, error) ELSE @], c)
    /\ UNCHANGED <<cfgVars, runVars, mappedVars, callVars, provision, migration>>

\* The TaskGroup of the call has no unfinished task left: validate returns
validate_return(c) ==
    /\ overlap.pcs[c] = "join"
    /\ overlap.task[c].stage = "done"
    /\ overlap' = [overlap EXCEPT !.pcs[c] = "returned"]
    /\ UNCHANGED <<cfgVars, runVars, mappedVars, callVars, provision, migration>>

NextOverlap ==
    \E c \in Calls :
        \/ validate_enter(c)
        \/ task_start(c)
        \/ \E raises \in BOOLEAN : func_ends(c, raises)
        \/ validate_return(c)

SpecOverlap == InitOverlap /\ [][NextOverlap]_vars

\* ------------------------------------------------------ MigrationStrategy
\* (src/bomf/__init__.py)  The source holds, per position, a data set or
\* nothing; a data set is named by its id and carries whether the registered
\* validators record an error when it is validated.  The same id twice is the
\* same data set met twice.
SourceItem(id, errs) == [id |-> id, errs |-> errs]
NoItem == SourceItem("None", FALSE)
IsItem(item) == item # NoItem
Sources ==
    UNION {[1..n -> {SourceItem(id, errs) : id \in DataSets, errs \in BOOLEAN}
                       \cup {NoItem}] : n \in 0..MaxSourceLen}
\* SourceToBo4eDataSetMapper.create_data_sets(limit, offset): at most limit
\* data sets, those of the positions from offset on
create_data_sets(source, limit, offset) ==
    LET last == IF offset + limit < Len(source) THEN offset + limit ELSE Len(source)
    IN  SelectSeq(SubSeq(source, offset + 1, last), IsItem)
\* create_data_sets(): all data sets of the source
create_all_data_sets(source) == SelectSeq(source, IsItem)

\* ErrorHandler.excs of one data set after its validators ran
ExcsOf(item) ==
    [m \in MappedValidators |-> IF m = "F" /\ item.errs THEN <<"error">> ELSE <<>>]
\* The error_handlers of validate (execution.py, lines 334-346), a dict keyed
\* by data set: a later entry for the same data set replaces the earlier one
RECURSIVE validate_error_handlers(_)
validate_error_handlers(bo4e_datasets) ==
    IF bo4e_datasets = <<>> THEN [d \in {} |-> <<>>]
    ELSE LET n == Len(bo4e_datasets)
             item == bo4e_datasets[n]
         IN  (item.id :> ExcsOf(item))
                @@ validate_error_handlers(SubSeq(bo4e_datasets, 1, n - 1))
\* The keys of that dict in the order in which they were inserted first
RECURSIVE keys_in_order(_)
keys_in_order(bo4e_datasets) ==
    IF bo4e_datasets = <<>> THEN <<>>
    ELSE LET n == Len(bo4e_datasets)
             before == keys_in_order(SubSeq(bo4e_datasets, 1, n - 1))
         IN  IF \E i \in DOMAIN before : before[i] = bo4e_datasets[n].id
             THEN before
             ELSE Append(before, bo4e_datasets[n].id)
\* Bo4eDataSetToTargetMapper.create_target_models and
\* EntityLoader.load_entities: one target model per data set, one summary per
\* target model
create_target_models(datasets) ==
    [i \in DOMAIN datasets |-> [target_of |-> datasets[i]]]
load_entities(entities) ==
    [i \in DOMAIN entities |-> [entity |-> entities[i],
                                was_loaded_successfully |-> TRUE]]
\* The data sets handed to create_target_models (lines 76-89)
mapped_data_sets(validation_manager, bo4e_datasets) ==
    IF validation_manager
    THEN LET validation_result == validate_error_handlers(bo4e_datasets)
         IN  SelectSeq(keys_in_order(bo4e_datasets),
                       LAMBDA d : d \in succeeded_data_sets(validation_result))
    ELSE [i \in DOMAIN bo4e_datasets |-> bo4e_datasets[i].id]
\* MigrationStrategy._map_to_target_validate_and_load (lines 68-95)
_map_to_target_validate_and_load(validation_manager, bo4e_datasets) ==
    LET mapped == mapped_data_sets(validation_manager, bo4e_datasets)
        target_data_models == create_target_models(mapped)
    IN  [bo4e_datasets |-> bo4e_datasets,
         validated |-> validation_manager,
         mapped |-> mapped,
         loaded |-> target_data_models,
         loading_summaries |-> load_entities(target_data_models),
         \* the calls made on self.target_loader, in order (lines 91-92)
         target_loader |-> <<"load_entities", "close">>]

\* The strategies and the calls
UpperBounds ==
    {[is_none |-> TRUE, value |-> 0]}
       \cup {[is_none |-> FALSE, value |-> v] : v \in 0..MaxSourceLen}
Strategies ==
    [validation_manager : BOOLEAN, pagination_supported : BOOLEAN, source : Sources]
MigrateCalls ==
    {[mode |-> "migrate", chunk_size |-> 0, initial_offset |-> 0,
      upper_bound |-> [is_none |-> TRUE, value |-> 0]]}
       \cup [mode : {"migrate_paginated"}, chunk_size : 1..MaxChunkSize,
             initial_offset : {0, 1}, upper_bound : UpperBounds]

InitMigrate ==
    /\ validators = EmptyValidators
    /\ dependency_graph = EmptyGraph
    /\ is_async = [m \in MappedValidators |-> FALSE]
    /\ numCalls = 0
    /\ lastCall = NoCall
    /\ pc = "config"
    /\ raisedExc = ""
    /\ data_sets = <<>>
    /\ dataSetIdx = 0
    /\ error_handlers = [d \in {} |-> <<>>]
    /\ task_group = FALSE
    /\ visited = {}
    /\ info = _RuntimeExecutionInfo
    /\ vpc = NoCo
    /\ runDeps = [m \in MappedValidators |-> {}]
    /\ provIdx = [m \in MappedValidators |-> 0]
    /\ running = "None"
    /\ invoked = [m \in MappedValidators |-> <<>>]
    /\ trace = [m \in MappedValidators |-> <<>>]
    /\ _ERROR_ID_MAP = [i \in {} |-> 0]
    /\ constructed = {}
    /\ ctorExc = "None"
    /\ registered = {}
    /\ nodes = {}
    /\ history = <<>>
    /\ previous = NoPrevious
    /\ provision = NoProvision
    /\ overlap = NoOverlap
    /\ \E strategy \in Strategies, call \in MigrateCalls :
          migration = [NoMigration EXCEPT
                          !.stage = "called",
                          !.mode = call.mode,
                          !.validation_manager = strategy.validation_manager,
                          !.pagination_supported = strategy.pagination_supported,
                          !.source = strategy.source,
                          !.chunk_size = call.chunk_size,
                          !.initial_offset = call.initial_offset,
                          !.upper_bound = call.upper_bound,
                          !.offset = call.initial_offset]

\* MigrationStrategy.migrate (lines 97-109)
migrate ==
    /\ migration.stage = "called"
    /\ migration.mode = "migrate"
    /\ LET bo4e_datasets == create_all_data_sets(migration.source)
           chunk == _map_to_target_validate_and_load(migration.validation_manager,
                                                     bo4e_datasets)
       IN  migration' = [migration EXCEPT
                            !.stage = "returned",
                            !.chunks = <<chunk>>,
                            !.loading_summaries = chunk.loading_summaries,
                            !.target_loader = @ \o chunk.target_loader]
    /\ UNCHANGED <<cfgVars, runVars, mappedVars, callVars, provision, overlap>>

\* Variant: the loop ends at the first empty page, whatever upper_bound is.
stops_at_empty_page(upper_bound, offset, bo4e_datasets) ==
    Len(bo4e_datasets) = 0
\* The condition of the break (line 148)
stops(upper_bound, offset, bo4e_datasets) ==
    (upper_bound.is_none \/ offset > upper_bound.value) /\ Len(bo4e_datasets) = 0

\* One turn of the while-loop of migrate_paginated (lines 131-157)
migrate_paginated ==
    /\ migration.stage \in {"called", "paging"}
    /\ migration.mode = "migrate_paginated"
    /\ IF ~migration.pagination_supported
       THEN migration' = [migration EXCEPT
                             !.stage = "raised",
                             !.requested = Append(@, migration.offset),
                             !.raised = "PaginationNotSupportedException"]
       ELSE LET offset == migration.offset
                bo4e_datasets == create_data_sets(migration.source,
                                                  migration.chunk_size, offset)
                chunk == _map_to_target_validate_and_load(
                             migration.validation_manager, bo4e_datasets)
            IN  IF stops(migration.upper_bound, offset, bo4e_datasets)
                THEN migration' = [migration EXCEPT
                                      !.stage = "returned",
                                      !.requested = Append(@, offset)]
                ELSE migration' = [migration EXCEPT
                                      !.stage = "paging",
                                      !.requested = Append(@, offset),
                                      !.chunks = Append(@, chunk),
                                      !.loading_summaries = @ \o chunk.loading_summaries,
                                      !.target_loader = @ \o chunk.target_loader,
                                      !.offset = offset + migration.chunk_size]
    /\ UNCHANGED <<cfgVars, runVars, mappedVars, callVars, provision, overlap>>

NextMigrate == migrate \/ migrate_paginated

SpecMigrate == InitMigrate /\ [][NextMigrate]_vars

\* ================================================================ properties
\* The error ids recorded against mv for the current data set
ErrorIds(mv) == {info.excs[mv][i].error_id : i \in DOMAIN info.excs[mv]}
\* The transitive dependencies of mv over the registered depends_on sets
DependsOnGraph ==
    [nodes |-> DOMAIN validators,
     edges |-> {<<a, b>> \in (DOMAIN validators) \X MappedValidators :
                   b \in validators[a].depends_on}]
TransDeps(mv) == Descendants(DependsOnGraph, mv)

\* ---- C1 ----
\* C1: whatever a validator does for a data set (raise, time out, block), the
\* failure is turned into an error record and validate returns a
\* ValidationResult instead of raising: with an acyclic configuration no
\* exception leaves validate.
C1_NoExceptionLeavesValidate ==
    pc = "raised" => ~IsAcyclic(dependency_graph)

\* ---- C2 ----
\* C2: when validate has returned, every registered mapped validator is in
\* state FINISHED for the data set, whether it ran normally or was abandoned.
C2_AllFinishedAtReturn ==
    (pc = "done" /\ data_sets # <<>>) =>
        \A mv \in DOMAIN validators : info.states[mv] = FINISHED

\* ---- C7 ----
\* C7: after any sequence of register calls the dependency graph is acyclic.
C7_GraphAcyclic == IsAcyclic(dependency_graph)

\* ---- C3 ----
\* C3: when A depends on B, no invocation of A's user function for a data set
\* begins before B's execution for that data set has completed (B's coroutine
\* has returned, so all of B's invocations ended and B's errors are recorded).
C3_DependencyCompletesFirst ==
    \A a \in DOMAIN validators :
        invoked[a] # <<>> =>
            \A b \in validators[a].depends_on : vpc[b] = "returned"

\* A was invoked after it had waited for the task of a dependency B that was
\* itself invoked.
C3_Witness ==
    \E a \in DOMAIN validators :
        /\ invoked[a] # <<>>
        /\ \E b \in validators[a].depends_on :
              b \in runDeps[a] /\ invoked[b] # <<>>

C5_AbandonedExactlyOnce ==
    (pc = "done" \/ (pc = "raised" /\ raisedExc = "AssertionError")) =>
        \A n \in DOMAIN validators :
            (\E d \in validators[n].depends_on : info.excs[d] # <<>>) =>
                /\ invoked[n] = <<>>
                /\ Len(info.excs[n]) = 1
                /\ ErrorIds(n) = {ABANDON_EXEC}

\* ---- C6 ----
\* C6 as stated: when validate has returned, N's user function was invoked for
\* the data set if and only if no transitive dependency of N has an error.
C6_InvokedIffDependenciesClean ==
    (pc = "done" /\ data_sets # <<>>) =>
        \A n \in DOMAIN validators :
            (invoked[n] # <<>>) <=> (\A d \in TransDeps(n) : info.excs[d] = <<>>)

\* C6 amended: N's user function is invoked for a data set only if no
\* transitive dependency of N has recorded an error for that data set.
C6_InvokedOnlyIfDependenciesClean ==
    \A n \in DOMAIN validators :
        invoked[n] # <<>> => \A d \in TransDeps(n) : info.excs[d] = <<>>

\* validate returned and a validator with two transitive dependencies was
\* invoked
C6_Witness ==
    /\ pc = "done"
    /\ \E n \in DOMAIN validators :
          invoked[n] # <<>> /\ Cardinality(TransDeps(n)) >= 2

\* ---- C8 ----
\* C8: a register call raises ValueError exactly when some element of
\* depends_on is not registered at that moment, and a call that raised left
\* the validator map and the dependency graph as they were.
C8_UnregisteredDependencyRejected ==
    [][numCalls' = numCalls + 1 =>
          /\ (lastCall'.result = "ValueError") <=>
                 ~(lastCall'.depends_on \subseteq DOMAIN validators)
          /\ lastCall'.result = "ValueError" =>
                 (validators' = validators /\ dependency_graph' = dependency_graph)]_vars

\* a call that named an unregistered dependency raised after an earlier call
\* had registered a validator
C8_Witness ==
    /\ lastCall.result = "ValueError"
    /\ ~(lastCall.depends_on \subseteq DOMAIN validators)
    /\ DOMAIN validators # {}

\* The register call of this step names a mapped validator that is registered
RepeatedCall ==
    /\ numCalls' = numCalls + 1
    /\ lastCall'.mapped_validator \in DOMAIN validators

\* ---- C9 ----
\* C9: a second register call with a mapped validator equal to a registered
\* one is a no-op: the registered depends_on and timeout and the edges of the
\* dependency graph stay as they were after the first call.
C9_SecondRegisterNoOp ==
    [][(RepeatedCall /\ lastCall'.result = "ok") =>
          (validators' = validators /\ dependency_graph' = dependency_graph)]_vars

\* ---- C10 ----
\* C10: an error recorded because the deadline of a validator's timeout
\* expired carries the error id 3 and a message that contains "Timeout".
C10_TimeoutCarriesId3 ==
    \A mv \in DOMAIN validators :
        \A i \in DOMAIN info.excs[mv] :
            info.excs[mv][i].cause = <<"TimeoutError", DeadlineRaise>> =>
                /\ info.excs[mv][i].error_id = 3
                /\ info.excs[mv][i].message_detail = TimeoutMessage(validators[mv].timeout)

\* The errors recorded against mv for the parameter set of the i-th element
ErrorsOfElement(mv, i) ==
    {k \in DOMAIN info.excs[mv] : info.excs[mv][k].provided_params = ParamsOf(mv, i)}
\* The timeout errors recorded against mv
TimeoutErrors(mv) ==
    {k \in DOMAIN info.excs[mv] : info.excs[mv][k].cause[1] = "TimeoutError"}

\* ---- C11 ----
\* C11: whenever a call of the user function of a validator registered with a
\* timeout, synchronous or asynchronous, was still running when its deadline
\* expired, a timeout error is recorded for that call.
C11_TimeoutEnforced ==
    \A mv \in DOMAIN validators :
        \A i \in DOMAIN trace[mv] :
            trace[mv][i].outcome \in {"deadline", "overrun"} =>
                \E k \in ErrorsOfElement(mv, i) : k \in TimeoutErrors(mv)

\* ---- C12 ----
\* C12: the timeout clock of a validator runs only during its own calls, which
\* begin after all its dependencies have completed: an error for an expired
\* deadline is recorded against a validator only while a call of its user
\* function is in progress, with every dependency completed, and it is the
\* error of that call.
C12_ClockStartsAfterDependencies ==
    [][\A mv \in MappedValidators :
          LET n == Len(info'.excs[mv])
          IN  (/\ n = Len(info.excs[mv]) + 1
               /\ info'.excs[mv][n].cause = <<"TimeoutError", DeadlineRaise>>) =>
                  /\ vpc[mv] = "invoking"
                  /\ \A d \in validators[mv].depends_on : vpc[d] = "returned"
                  /\ info'.excs[mv][n].provided_params = ParamsOf(mv, Len(trace[mv]))
                  /\ trace'[mv][Len(trace[mv])].outcome = "deadline"]_vars

\* a validator with a timeout waited for the task of a dependency whose user
\* function was called, then its own call returned and it has no timeout error
C12_Witness ==
    \E a \in DOMAIN validators :
        /\ validators[a].timeout # NoTimeout
        /\ \E b \in runDeps[a] : invoked[b] # <<>>
        /\ \E i \in DOMAIN trace[a] : trace[a][i].outcome = "return"
        /\ vpc[a] = "returned"
        /\ TimeoutErrors(a) = {}

\* ---- C13 ----
\* C13: for every element yielded by provide that is an exception, exactly one
\* error, with error id 1, is recorded against the mapped validator, the user
\* function is not invoked for it, no exception is raised, and the mapped
\* validator goes on with the next element of provide.
C13_ProviderExceptionRecordedAndSkipped ==
    [][\A mv \in MappedValidators :
          LET n == Len(trace'[mv])
              k == Len(info'.excs[mv])
          IN  (n = Len(trace[mv]) + 1 /\ trace'[mv][n].element = "Exception") =>
                  /\ k = Len(info.excs[mv]) + 1
                  /\ info'.excs[mv][k].error_id = PARAM_PROVIDER_ERRORED
                  /\ info'.excs[mv][k].mapped_validator = mv
                  /\ \A i \in 1..(k - 1) : info'.excs[mv][i] = info.excs[mv][i]
                  /\ \A o \in MappedValidators \ {mv} : info'.excs[o] = info.excs[o]
                  /\ invoked' = invoked
                  /\ pc' = pc
                  /\ vpc'[mv] = "provide"
                  /\ running' = mv]_vars

\* a provider yielded an exception and the same validator's next parameter set
\* was passed to the user function
C13_Witness ==
    \E mv \in DOMAIN validators :
        \E i \in DOMAIN trace[mv] :
            /\ trace[mv][i].element = "Exception"
            /\ i + 1 \in DOMAIN trace[mv]
            /\ trace[mv][i + 1].element = "Parameters"
            /\ ParamsOf(mv, i + 1) \in {invoked[mv][j] : j \in DOMAIN invoked[mv]}
            /\ PARAM_PROVIDER_ERRORED \in ErrorIds(mv)

\* ---- C14 ----
\* C14: for every Parameters object yielded by a provider, a type-mismatch
\* error (error id 5) is recorded exactly when a provided parameter value
\* does not conform to the declared type (a parameter with provided = false
\* never causes one), and then the user function is not invoked for it.
C14_TypeErrorIffProvidedValueMismatch ==
    \A mv \in DOMAIN validators :
        \A i \in DOMAIN trace[mv] :
            LET params == trace[mv][i].element
                recorded == \E k \in ErrorsOfElement(mv, i) :
                                info.excs[mv][k].error_id = PARAM_TYPE_MISMATCH
            IN  params # "Exception" =>
                    /\ recorded <=>
                          \E param \in items(params) :
                              param.provided /\ ~check_type(param)
                    /\ recorded =>
                          \A j \in DOMAIN invoked[mv] :
                              invoked[mv][j] # ParamsOf(mv, i)

\* ---- C15 ----
\* C15: for every mapped validator, path-mapped or query-mapped, the
\* constructor fails unless the key set of every parameter map is a superset
\* of the validator's required parameter names and a subset of all its
\* parameter names, so no mapped validator violating this is ever registered.
C15_KeySetsChecked ==
    \A mv \in constructed \cup registered :
        \A i \in DOMAIN mv.maps :
            LET keys == {item[1] : item \in mv.maps[i]}
            IN  /\ required_param_names(mv.validator) \subseteq keys
                /\ keys \subseteq param_names(mv.validator)

\* ---- C16 ----
\* C16: two mapped validators are equal and hash alike if and only if their
\* validators are equal and their map specifications are equal; two
\* registered mapped validators that wrap different validator functions are
\* two distinct nodes.
C16_EqualIffValidatorAndMapsEqual ==
    /\ \A a, b \in constructed :
          (__eq__(a, b) /\ __hash__(a) = __hash__(b)) <=>
              (a.validator = b.validator /\ a.maps = b.maps)
    /\ \A a, b \in registered :
          a.validator # b.validator => (a \in nodes /\ b \in nodes)

\* The data sets passed to the validate call
PassedDataSets == {data_sets[i] : i \in DOMAIN data_sets}
\* The errors recorded through catch during the validate call, one
\* ErrorHandler after the other
RECURSIVE RecordedErrors(_)
RecordedErrors(hist) ==
    IF hist = <<>> THEN <<>>
    ELSE chain(Head(hist).excs) \o RecordedErrors(Tail(hist))
\* How often an error occurs in a list of errors
Count(error, errors) == Cardinality({i \in DOMAIN errors : errors[i] = error})
\* The error ids of a list of errors, in the order of the list
IdsOf(errors) == [i \in DOMAIN errors |-> errors[i].error_id]

\* ---- C17 ----
\* C17: in every ValidationResult, succeeded_data_sets and the keys of
\* data_set_errors are disjoint and their union is the set of data sets passed
\* to validate; a data set is a key of data_set_errors exactly when at least
\* one error was recorded for it, and every list in data_set_errors is
\* non-empty.
C17_ResultPartitionsDataSets ==
    pc = "done" =>
        LET failed == data_set_errors(error_handlers)
            succeeded == succeeded_data_sets(error_handlers)
        IN  /\ succeeded \cap DOMAIN failed = {}
            /\ succeeded \cup DOMAIN failed = PassedDataSets
            /\ \A d \in PassedDataSets :
                  d \in DOMAIN failed <=>
                      \E i \in DOMAIN history :
                          history[i].data_set = d /\ chain(history[i].excs) # <<>>
            /\ \A d \in DOMAIN failed : failed[d] # <<>>

\* ---- C18 ----
\* C18: all_errors of the returned ValidationResult holds every error recorded
\* through catch during the validate call exactly once, so num_errors_total is
\* the number of recorded errors, for any sequence of data sets, also one in
\* which a data set occurs twice.
C18_AllErrorsComplete ==
    pc = "done" =>
        LET recorded == RecordedErrors(history)
            errors == all_errors(error_handlers)
        IN  /\ num_errors_total(error_handlers) = Len(recorded)
            /\ \A i \in DOMAIN recorded :
                  Count(recorded[i], errors) = Count(recorded[i], recorded)

\* ---- C19 ----
\* C19: a second validate call on the same manager with the same data sets,
\* with providers and user functions behaving as in the first call, returns
\* as the first did, with the same error ids as often and the same succeeded
\* and failed data sets.
C19_SecondCallEqualsFirst ==
    previous.returned =>
        /\ pc # "raised"
        /\ pc = "done" =>
              /\ IdsOf(all_errors(error_handlers)) =
                     IdsOf(all_errors(previous.error_handlers))
              /\ succeeded_data_sets(error_handlers) =
                     succeeded_data_sets(previous.error_handlers)
              /\ DOMAIN data_set_errors(error_handlers) =
                     DOMAIN data_set_errors(previous.error_handlers)

\* the second call returned; a dependency failed in it, its dependant was
\* abandoned, and another data set of the batch succeeded
C19_Witness ==
    /\ previous.returned
    /\ pc = "done"
    /\ succeeded_data_sets(error_handlers) # {}
    /\ \E d \in DOMAIN data_set_errors(error_handlers) :
          /\ error_handlers[d]["F"] # <<>>
          /\ \E k \in DOMAIN error_handlers[d]["G"] :
                error_handlers[d]["G"][k].error_id = ABANDON_EXEC

\* ---- C20 ----
\* C20: the error id of a raise site is a function of its identifier alone:
\* whatever was registered before it, and in whatever order, the identifier
\* has the id it has in a process in which it is registered first.
C20_IdDependsOnIdentifierOnly ==
    \A identifier \in DOMAIN _ERROR_ID_MAP :
        _ERROR_ID_MAP[identifier] = _generate_new_id(identifier, NoId)

\* ---- C21 ----
\* C21: the registry of error ids is injective and stable: no two distinct
\* identifiers have the same id, a lookup of a registered identifier returns
\* the id it has and leaves the registry as it is, and no call changes or
\* removes the id of a registered identifier.
C21_RegistryInjectiveAndStable ==
    /\ [](\A i, j \in DOMAIN _ERROR_ID_MAP :
             _ERROR_ID_MAP[i] = _ERROR_ID_MAP[j] => i = j)
    /\ [](\A i \in DOMAIN _ERROR_ID_MAP :
             /\ _get_error_id(_ERROR_ID_MAP, i) = _ERROR_ID_MAP[i]
             /\ RegistryAfter(_ERROR_ID_MAP, i) = _ERROR_ID_MAP)
    /\ [][\A i \in DOMAIN _ERROR_ID_MAP :
             /\ i \in DOMAIN _ERROR_ID_MAP'
             /\ _ERROR_ID_MAP'[i] = _ERROR_ID_MAP[i]]_vars

\* two identifiers whose first generated ids are equal are both registered,
\* so one of them got its id from a second draw
C21_Witness ==
    /\ {OtherRaise, UserRaise("F")} \subseteq DOMAIN _ERROR_ID_MAP
    /\ _generate_new_id(OtherRaise, NoId) = _generate_new_id(UserRaise("F"), NoId)
    /\ _ERROR_ID_MAP[OtherRaise] # _ERROR_ID_MAP[UserRaise("F")]

\* The call of provide of a query-mapped validator, described by its arguments
QueryCall == provision.call.cls = "QueryMappedValidator"
QKeys == {provision.call.param_map[k] : k \in DOMAIN provision.call.param_map}
QRequired == QKeys \ provision.call.optional_param_names
\* positions of the values and of the exceptions in what the query of n yields
QValues(n) == {i \in DOMAIN provision.call.results[n] :
                  provision.call.results[n][i] = "value"}
QExceptions(n) == DOMAIN provision.call.results[n] \ QValues(n)
\* the value sequence of n: exceptions count for an optional parameter only
QSequence(n) == IF n \in QRequired THEN QValues(n) ELSE DOMAIN provision.call.results[n]
\* the Cartesian product of the value sequences
QProduct == {c \in [QKeys -> 0..MaxQueryLen] : \A n \in QKeys : c[n] \in QSequence(n)}
\* the Parameters of one element of the product
QParameters(c) ==
    [n \in QKeys |->
        IF c[n] \in QValues(n)
        THEN BoundParameter(n, <<n, c[n]>>, TRUE, TRUE)
        ELSE BoundParameter(n, <<n, 0>>, FALSE, provision.call.default_conforms)]
YieldedAt(kind) == {p \in DOMAIN provision.yielded : provision.yielded[p].kind = kind}

\* ---- C22 ----
\* C22: QueryMappedValidator.provide yields one Parameters per element of the
\* Cartesian product of the per-parameter value sequences (exceptions left out
\* for a required parameter, kept as a not provided default for an optional
\* one), and after them every exception captured for a required parameter
\* once.  So with a required parameter without a value nothing is invoked and
\* there is one id-1 error per captured exception, and with an empty product
\* and no captured exception nothing is invoked and nothing recorded.
C22_QueryProvideIsProduct ==
    (QueryCall /\ provision.stage \in {"yielded", "executed"}) =>
        LET yielded == provision.yielded
            captured == {<<n, i>> \in QRequired \X (1..MaxQueryLen) :
                            i \in QExceptions(n)}
        IN  /\ Cardinality(YieldedAt("Parameters")) = Cardinality(QProduct)
            /\ \A c \in QProduct :
                  Cardinality({p \in YieldedAt("Parameters") :
                                  yielded[p].params = QParameters(c)})
                     = Cardinality({d \in QProduct : QParameters(d) = QParameters(c)})
            /\ Cardinality(YieldedAt("Exception")) = Cardinality(captured)
            /\ \A e \in captured :
                  Cardinality({p \in YieldedAt("Exception") : yielded[p].exc = e}) = 1
            /\ \A p \in YieldedAt("Exception"), q \in YieldedAt("Parameters") : q < p
            /\ provision.stage = "executed" =>
                  /\ (\E n \in QRequired : QValues(n) = {}) =>
                        /\ provision.invoked = <<>>
                        /\ provision.error_ids =
                              [i \in 1..Cardinality(captured) |-> PARAM_PROVIDER_ERRORED]
                  /\ (QProduct = {} /\ captured = {}) =>
                        /\ provision.invoked = <<>>
                        /\ provision.error_ids = <<>>

\* a required parameter with a value and an exception, an optional one with an
\* exception: Parameters were yielded and invoked, one of them with the
\* optional parameter not provided, and the captured exception gave an error
C22_Witness ==
    /\ QueryCall
    /\ provision.stage = "executed"
    /\ \E n \in QRequired : QValues(n) # {} /\ QExceptions(n) # {}
    /\ \E p \in DOMAIN provision.invoked :
          \E n \in DOMAIN provision.invoked[p].params :
              ~provision.invoked[p].params[n].provided
    /\ \E i \in DOMAIN provision.error_ids :
          provision.error_ids[i] = PARAM_PROVIDER_ERRORED

\* The call of provide of a path-mapped validator, described by its arguments
PathCall == provision.call.cls = "PathMappedValidator"
\* positions in map m of the required parameters whose path is missing
MissingRequired(m) ==
    {k \in DOMAIN provision.call.param_maps[m] :
        /\ provision.call.param_maps[m][k] \notin provision.call.optional_param_names
        /\ <<provision.call.param_maps[m][k], m>> \notin provision.call.present}

\* ---- C23 ----
\* C23: PathMappedValidator.provide yields exactly one element per parameter
\* map, in map order: a Parameters when the path of every required parameter
\* is found, otherwise one AttributeError for the first required parameter of
\* the map whose path is missing; the maps after a failing map are still
\* yielded.
C23_OneElementPerMap ==
    (PathCall /\ provision.stage \in {"yielded", "executed"}) =>
        /\ Len(provision.yielded) = Len(provision.call.param_maps)
        /\ \A m \in DOMAIN provision.call.param_maps :
              LET param_map == provision.call.param_maps[m]
                  el == provision.yielded[m]
              IN  IF MissingRequired(m) = {}
                  THEN /\ el.kind = "Parameters"
                       /\ DOMAIN el.params = {param_map[k] : k \in DOMAIN param_map}
                       /\ \A name \in DOMAIN el.params :
                             /\ el.params[name].param_id = <<name, m>>
                             /\ el.params[name].provided
                                   <=> <<name, m>> \in provision.call.present
                  ELSE /\ el.kind = "Exception"
                       /\ \E k \in MissingRequired(m) :
                             /\ \A j \in MissingRequired(m) : k <= j
                             /\ el.exc = <<param_map[k], m>>

\* two maps: the first lacks both of its required parameters, the second is
\* filled and yielded after the error of the first
C23_Witness ==
    /\ PathCall
    /\ provision.stage = "yielded"
    /\ Len(provision.call.param_maps) = 2
    /\ Cardinality(MissingRequired(1)) = 2
    /\ provision.yielded[1].kind = "Exception"
    /\ provision.yielded[2].kind = "Parameters"

\* ---- C24 ----
\* C24: an optional parameter whose path is absent from the data set never
\* produces an error: it is bound with provided = false and the default, left
\* out of param_dict, and the user function is still invoked - so errors come
\* from the maps lacking a required parameter only, every other map is
\* invoked, and a validator with optional parameters only is invoked once per
\* map.
C24_AbsentOptionalNeverErrs ==
    (PathCall /\ provision.stage = "executed") =>
        LET maps == DOMAIN provision.call.param_maps
            filled == {m \in maps : MissingRequired(m) = {}}
        IN  /\ Len(provision.error_ids) = Cardinality(maps \ filled)
            /\ Len(provision.invoked) = Cardinality(filled)
            /\ \A m \in filled :
                  LET params == provision.yielded[m].params
                  IN  /\ \A name \in DOMAIN params :
                            <<name, m>> \notin provision.call.present
                               => ~params[name].provided
                      /\ param_dict(params) =
                            {name \in DOMAIN params :
                                <<name, m>> \in provision.call.present}
            /\ provision.call.optional_param_names = SignatureNames
                  => Len(provision.invoked) = Len(provision.call.param_maps)

\* ---- C25 ----
\* C25: the runtime state of a data set is owned by the validate call that
\* validates it, also when two validate calls on one manager overlap: every
\* error raised while validating data set R is in R's ErrorHandler and in no
\* other, the validators a call runs work on the call's own data set with the
\* call's own ErrorHandler, and the states map in which a call's validator is
\* marked is the call's own, so a call returns with its validator FINISHED.
C25_StateOwnedByInvocation ==
    /\ \A i \in Calls :
          \A k \in DOMAIN overlap.infos[i].excs :
              overlap.infos[i].excs[k].data_set = overlap.infos[i].data_set
    /\ \A c \in Calls :
          /\ overlap.task[c].stage \in {"in_func", "done"}
                => overlap.task[c].data_set = DataSetOf(c)
          /\ overlap.task[c].stage = "in_func"
                => overlap.task[c].error_handler = c
          /\ overlap.pcs[c] = "returned"
                => overlap.infos[c].states = FINISHED

\* ---- C26 ----
\* C26: while the user function of a validator executes for the parameter
\* set P, the current provided params of the executing task are P, so that
\* param(name) inside the function returns the Parameter of that very
\* invocation - at the call of every function, and for as long as an
\* asynchronous function is suspended while other validators' tasks run.
C26_ParamOfCurrentInvocation ==
    /\ [](\A mv \in DOMAIN validators :
             vpc[mv] = "invoking" =>
                 current_provided_params(info, info.tasks[mv])
                    = invoked[mv][Len(invoked[mv])])
    /\ [][\A mv \in DOMAIN validators :
             invoked'[mv] # invoked[mv] =>
                 current_provided_params(info', info'.tasks[mv])
                    = invoked'[mv][Len(invoked'[mv])]]_vars

\* two asynchronous functions are suspended at the same time, each in a task
\* of its own with the parameter set it was called with
C26_Witness ==
    \E m1, m2 \in DOMAIN validators :
        /\ m1 # m2
        /\ vpc[m1] = "invoking" /\ vpc[m2] = "invoking"
        /\ info.tasks[m1] # info.tasks[m2]
        /\ current_provided_params(info, info.tasks[m1]) = ParamsOf(m1, 1)
        /\ current_provided_params(info, info.tasks[m2]) = ParamsOf(m2, 1)

\* ---- C27 ----
\* C27: in migrate and migrate_paginated with a validation manager, exactly
\* the data sets in succeeded_data_sets of each batch are mapped to target
\* models and handed to the loader, and a data set for which at least one
\* validation error was recorded is never mapped or loaded.
C27_OnlyValidDataSetsLoaded ==
    \A k \in DOMAIN migration.chunks :
        LET chunk == migration.chunks[k]
            batch == chunk.bo4e_datasets
            mapped == {chunk.mapped[i] : i \in DOMAIN chunk.mapped}
        IN  chunk.validated =>
                /\ mapped = succeeded_data_sets(validate_error_handlers(batch))
                /\ Len(chunk.mapped) = Cardinality(mapped)
                /\ chunk.loaded = [i \in DOMAIN chunk.mapped |->
                                      [target_of |-> chunk.mapped[i]]]
                /\ Len(chunk.loading_summaries) = Len(chunk.loaded)
                /\ \A i \in DOMAIN batch :
                      batch[i].errs =>
                          /\ batch[i].id \notin mapped
                          /\ \A j \in DOMAIN chunk.loaded :
                                chunk.loaded[j].target_of # batch[i].id

\* The page requested k-th by migrate_paginated, and whether the loop may end
\* with it
RequestedPage(k) ==
    create_data_sets(migration.source, migration.chunk_size, migration.requested[k])
MayEndWith(k) ==
    /\ Len(RequestedPage(k)) = 0
    /\ \/ migration.upper_bound.is_none
       \/ migration.requested[k] > migration.upper_bound.value

\* ---- C29 ----
\* C29: migrate_paginated requests the pages at the offsets initial_offset,
\* initial_offset + chunk_size, initial_offset + 2 * chunk_size, ... in this
\* order; without upper_bound it stops at the first empty page, with an
\* upper_bound it goes on over empty pages while offset <= upper_bound and
\* stops at the first empty page whose offset is greater; every page
\* requested before that is validated, mapped and loaded exactly once, and
\* its summaries are appended in page order.
C29_PagesInOrderUntilEmpty ==
    (migration.mode = "migrate_paginated" /\ migration.pagination_supported) =>
        LET requested == migration.requested
            done == migration.stage = "returned"
            processed == IF done THEN Len(requested) - 1 ELSE Len(requested)
        IN  /\ \A k \in DOMAIN requested :
                  requested[k] = migration.initial_offset
                                    + (k - 1) * migration.chunk_size
            /\ \A k \in 1..processed : ~MayEndWith(k)
            /\ done => (Len(requested) >= 1 /\ MayEndWith(Len(requested)))
            /\ Len(migration.chunks) = processed
            /\ \A k \in DOMAIN migration.chunks :
                  LET chunk == migration.chunks[k]
                  IN  /\ chunk.bo4e_datasets = RequestedPage(k)
                      /\ chunk.validated = migration.validation_manager
                      /\ Len(chunk.loading_summaries) = Len(chunk.loaded)
                      /\ Len(chunk.loaded) = Len(chunk.mapped)
            /\ migration.loading_summaries =
                  Flatten([k \in DOMAIN migration.chunks |->
                              migration.chunks[k].loading_summaries])

\* with an upper_bound: an empty page below it was passed over, a page with
\* data sets came after it, and the loop ended above the upper_bound
C29_Witness ==
    /\ migration.mode = "migrate_paginated"
    /\ migration.stage = "returned"
    /\ ~migration.upper_bound.is_none
    /\ \E k \in DOMAIN migration.chunks :
          /\ k + 1 \in DOMAIN migration.chunks
          /\ Len(RequestedPage(k)) = 0
          /\ Len(migration.chunks[k + 1].loading_summaries) > 0

\* ---- C28 ----
\* C28: all_errors is sorted by error id in non-decreasing order, and
\* num_errors_per_id maps every error id occurring in all_errors to exactly
\* the number of errors in all_errors with that id: the counts sum to
\* num_errors_total and no id has the count 0.
C28_SortedAndCountedPerId ==
    pc = "done" =>
        LET errors == all_errors(error_handlers)
            per_id == num_errors_per_id(error_handlers)
            WithId(id) == {i \in DOMAIN errors : errors[i].error_id = id}
        IN  /\ \A i, j \in DOMAIN errors :
                  i < j => errors[i].error_id <= errors[j].error_id
            /\ DOMAIN per_id = {errors[i].error_id : i \in DOMAIN errors}
            /\ \A id \in DOMAIN per_id :
                  /\ per_id[id] = Cardinality(WithId(id))
                  /\ per_id[id] > 0
            /\ Cardinality(UNION {WithId(id) : id \in DOMAIN per_id})
                  = num_errors_total(error_handlers)

\* two data sets failed with the same two error ids each, which the chain of
\* their errors holds alternately
C28_Witness ==
    /\ pc = "done"
    /\ Cardinality(DOMAIN data_set_errors(error_handlers)) = 2
    /\ all_errors_unsorted(error_handlers) # all_errors(error_handlers)
    /\ \E id \in DOMAIN num_errors_per_id(error_handlers) :
          num_errors_per_id(error_handlers)[id] = 2

\* ---- C30 ----
\* C30: validate always terminates: for every acyclic registered graph, any
\* mix of sync and async validators and any depth of dependency chains, with
\* user functions that terminate, no validator task waits forever on a
\* dependency and validate returns in the end, also when a validator in the
\* middle of a chain was abandoned because its dependency failed.  So as long
\* as validate has neither returned nor raised, the main coroutine or one of
\* the tasks can take a step.
C30_ValidateNeverStuck ==
    pc \in {"begin", "loop", "join"} => ENABLED Next

\* The coroutine of a mapped validator has started and not ended yet
StillExecuting(mv) == vpc[mv] \in {"created", "waiting", "provide", "invoking"}

\* ---- C31 ----
\* C31: a mapped validator is executed as a background task if and only if
\* its user function is asynchronous or at least one of its dependencies is
\* still executing at the moment it is picked up; otherwise it runs inline on
\* the main execution context and no task is spawned; and when no asynchronous
\* validator is registered, no task is ever spawned.
C31_TaskIffAsyncOrDependencyExecuting ==
    /\ [][\A mv \in DOMAIN validators :
             (/\ pc = "loop"
              /\ mv \notin visited
              /\ mv \in visited'
              /\ \A d \in validators[mv].depends_on : info.states[d] # PENDING)
             => LET concurrent ==
                        \/ is_async[mv]
                        \/ \E d \in validators[mv].depends_on : StillExecuting(d)
                IN  IF concurrent
                    THEN info'.tasks[mv] = mv /\ vpc'[mv] = "created"
                    ELSE /\ info'.tasks[mv] = MainTask
                         /\ pc' # "raised"]_vars
    /\ []((\A m \in DOMAIN validators : ~is_async[m])
             => \A m \in MappedValidators : info.tasks[m] # m)

\* ---- C32 ----
\* C32: timeout errors and user-code errors are recorded distinctly: an error
\* has the message 'Timeout (...) during execution' only when the deadline of
\* that invocation expired, and every exception the user function raises
\* itself, whatever its type, is recorded with the exception's text as message
\* and an id derived from the raise site.
C32_TimeoutsAndUserErrorsDistinct ==
    \A mv \in DOMAIN validators :
        /\ \A k \in DOMAIN info.excs[mv] :
              LET error == info.excs[mv][k]
              IN  /\ error.message_detail \in {TimeoutMessage(t) : t \in Timeouts}
                        => error.cause[2] = DeadlineRaise
                  /\ error.cause[2] \in {UserRaise(mv), UserRaiseTimeout(mv)}
                        => /\ error.message_detail = "str(error)"
                           /\ error.error_id = _ERROR_ID_MAP[error.cause[2]]
        /\ \A i \in DOMAIN trace[mv] :
              trace[mv][i].outcome \in {"raise", "raiseTimeoutError"} =>
                  \E k \in ErrorsOfElement(mv, i) :
                      info.excs[mv][k].message_detail = "str(error)"

\* The number of calls of the user function of mv with the i-th element
InvocationsOf(mv, i) ==
    Cardinality({j \in DOMAIN invoked[mv] : invoked[mv][j] = ParamsOf(mv, i)})

\* ---- C33 ----
\* C33: the user function of a mapped validator is invoked exactly once for
\* each element yielded by provide that is a Parameters object passing the
\* type check, and never for an exception or for Parameters failing the type
\* check; and when one invocation ends with an error the mapped validator goes
\* on with the next element of provide.
C33_OncePerParametersAndErrorsDoNotStop ==
    /\ [](\A mv \in DOMAIN validators :
            \A i \in DOMAIN trace[mv] :
                InvocationsOf(mv, i) =
                    IF _are_params_ok(trace[mv][i].element) THEN 1 ELSE 0)
    /\ [][\A mv \in DOMAIN validators :
            (/\ vpc[mv] \in {"provide", "invoking"}
             /\ trace'[mv] # trace[mv]
             /\ trace'[mv][Len(trace'[mv])].outcome \in
                    {"raise", "raiseTimeoutError", "deadline"})
            => /\ vpc'[mv] = "provide"
               /\ pc' = pc]_vars

C35_AllocationAtomicUnderInterleaving ==
    /\ [](\A i \in DOMAIN _ERROR_ID_MAP, j \in DOMAIN _ERROR_ID_MAP :
              _ERROR_ID_MAP[i] = _ERROR_ID_MAP[j] => i = j)
    /\ [](\A mv \in MappedValidators :
              \A k \in DOMAIN info.excs[mv] :
                  info.excs[mv][k].cause[2] \in
                        {UserRaise(mv), UserRaiseTimeout(mv)}
                        /\ info.excs[mv][k].cause[1] # "TimeoutError"
                     => /\ info.excs[mv][k].cause[2] \in DOMAIN _ERROR_ID_MAP
                        /\ info.excs[mv][k].error_id =
                               _ERROR_ID_MAP[info.excs[mv][k].cause[2]])
    /\ [][\A i \in DOMAIN _ERROR_ID_MAP :
              /\ i \in DOMAIN _ERROR_ID_MAP'
              /\ _ERROR_ID_MAP'[i] = _ERROR_ID_MAP[i]]_vars

\* two asynchronous validators without dependencies ran as tasks of one task
\* group, and the user function of each raised at its own raise site
C35_Witness ==
    \E mv \in DOMAIN validators, o \in DOMAIN validators :
        /\ mv # o
        /\ is_async[mv] /\ is_async[o]
        /\ validators[mv].depends_on = {} /\ validators[o].depends_on = {}
        /\ info.tasks[mv] = mv /\ info.tasks[o] = o
        /\ \E k \in DOMAIN info.excs[mv] : info.excs[mv][k].cause[2] = UserRaise(mv)
        /\ \E k \in DOMAIN info.excs[o] : info.excs[o][k].cause[2] = UserRaise(o)
        /\ {UserRaise(mv), UserRaise(o)} \subseteq DOMAIN _ERROR_ID_MAP

\* The ids the engine assigns itself, and the id the specification reserves
\* for timeouts
ReservedIds == {PARAM_PROVIDER_ERRORED, ABANDON_EXEC, 3, PARAM_TYPE_MISMATCH}

\* ---- C36 ----
\* C36: every id the registry holds for a raise site, and every id a redraw
\* seeded with an assigned id would produce, lies in [1000000, 9999999] and so
\* is none of the reserved ids 1, 2, 3, 5; an error whose id was derived from
\* its raise site carries such an id, and an error carries a reserved id only
\* when the engine set it: 1 for an exception yielded by a provider, 2 for an
\* abandoned validator, 5 for a failed type check.
C36_DerivedIdsSevenDigits ==
    /\ \A i \in DOMAIN _ERROR_ID_MAP :
          /\ _ERROR_ID_MAP[i] \in RandLow .. RandHigh
          /\ _ERROR_ID_MAP[i] \notin ReservedIds
          /\ \A last_id \in Assigned(_ERROR_ID_MAP) \cup {NoId} :
                _generate_new_id(i, last_id) \in RandLow .. RandHigh
    /\ \A mv \in MappedValidators :
          \A k \in DOMAIN info.excs[mv] :
              LET error == info.excs[mv][k]
              IN  /\ error.cause[2] \in
                         {UserRaise(mv), UserRaiseTimeout(mv), DeadlineRaise}
                        => error.error_id \in RandLow .. RandHigh
                  /\ error.error_id \in ReservedIds =>
                        \/ /\ error.error_id = PARAM_PROVIDER_ERRORED
                           /\ error.message_detail = "str(params_or_exc)"
                           /\ error.cause[2] = NotRaised
                        \/ /\ error.error_id = ABANDON_EXEC
                           /\ error.message_detail = AbandonMessage
                           /\ error.cause[2] = NotRaised
                        \/ /\ error.error_id = PARAM_TYPE_MISMATCH
                           /\ error.cause = <<"TypeError", CheckTypeRaise>>

\* one validator failed at its raise site and got a derived id, a validator
\* depending on it was abandoned with the reserved id 2
C36_Witness ==
    \E mv \in DOMAIN validators, o \in DOMAIN validators :
        /\ mv \in validators[o].depends_on
        /\ \E k \in DOMAIN info.excs[mv] :
              /\ info.excs[mv][k].cause[2] = UserRaise(mv)
              /\ info.excs[mv][k].error_id = _ERROR_ID_MAP[UserRaise(mv)]
        /\ \E k \in DOMAIN info.excs[o] : info.excs[o][k].error_id = ABANDON_EXEC

\* ---- C37 ----
\* C37: in every reachable registry state that leaves an id unassigned,
\* _get_error_id returns for every identifier: the collision loop never goes
\* round among assigned ids for ever.
C37_GetErrorIdTerminates ==
    /\ pc # "looping"
    /\ Cardinality(Assigned(_ERROR_ID_MAP)) < RandHigh - RandLow + 1
          => \A identifier \in Identifiers :
                 _get_error_id_returns(_ERROR_ID_MAP, identifier)

\* ---- C38 ----
\* C38: the provided_params of every error recorded against a mapped validator
\* is None or the Parameters object of that validator's own element for which
\* the error is recorded, the one yielded last; for an abandoned validator and
\* for an exception yielded by a provider, which have no Parameters object of
\* their own, it is None.
C38_SnapshotIsOwnInvocation ==
    [][\A mv \in MappedValidators :
          (pc # "begin" /\ Len(info'.excs[mv]) > Len(info.excs[mv])) =>
              LET error == info'.excs[mv][Len(info'.excs[mv])]
              IN  \/ error.provided_params = NoParams
                  \/ /\ trace'[mv] # <<>>
                     /\ error.provided_params = ParamsOf(mv, Len(trace'[mv]))
                     /\ trace'[mv][Len(trace'[mv])].element # "Exception"
                     /\ error.error_id # ABANDON_EXEC]_vars

\* ---- C39 ----
\* C39: after any sequence of register calls the dependency graph and the
\* registered depends_on agree: the nodes of the graph are the registered
\* mapped validators, and the edges leaving a mapped validator lead to
\* exactly the members of its depends_on.
C39_GraphAgreesWithDependsOn ==
    /\ dependency_graph.nodes = DOMAIN validators
    /\ \A mv \in DOMAIN validators :
          {e[2] : e \in {d \in dependency_graph.edges : d[1] = mv}}
              = validators[mv].depends_on

\* ---- C40 ----
\* C40: within one migration run the target loader is closed only after the
\* last load_entities call of the run: no load_entities call follows a close.
C40_NoLoadAfterClose ==
    \A i \in DOMAIN migration.target_loader, j \in DOMAIN migration.target_loader :
        (i < j /\ migration.target_loader[i] = "close")
            => migration.target_loader[j] # "load_entities"

====
